---- MODULE Spec2Model ----
EXTENDS Integers, Sequences, FiniteSets, TLC

(***************************************************************************)
(* Verification model of the Exo scheduling front end:                     *)
(*   - LoopIR trees and the cursors that point into them (API_cursors.py), *)
(*   - the argument processors and AtomicSchedulingOp (API_scheduling.py), *)
(*   - the loop rewrites divide_loop / mult_loops, executed step by step,  *)
(*   - the buffer and statement rewrites, applied to small procedures.     *)
(* Indices are zero-based as in the Python source; sequences are indexed   *)
(* with +1.                                                                *)
(***************************************************************************)

VARIABLES
    navProc,    \* SpecNav: the LoopIR proc node the cursor points into
    navCur,     \* SpecNav: the public cursor the script currently holds
    navRes,     \* SpecNav: record of the last navigation call and its outcome
    lpOrig,     \* SpecLoop: body of the procedure as the user wrote it
    lpAssume,   \* SpecLoop: m when the procedure asserts N % m == 0 for its size N
    lpBody,     \* SpecLoop: body of the current procedure
    lpOps,      \* SpecLoop: the scheduling calls made so far, with their outcomes
    lpRun,      \* SpecLoop: the last execution of lpBody and of lpOrig
    procs,      \* Spec: the Procedures the script holds, in order of creation
    call,       \* Spec: the last scheduling call, its arguments and its outcome
    rwIn,       \* SpecRw, SpecSt: body of the procedure as the user wrote it
    rwOut,      \* SpecRw, SpecSt: body of the current procedure
    rwOps       \* SpecRw, SpecSt: the scheduling calls made so far, with their outcomes

navVars == <<navProc, navCur, navRes>>
lpVars  == <<lpOrig, lpAssume, lpBody, lpOps, lpRun>>
sessVars == <<procs, call>>
rwVars  == <<rwIn, rwOut, rwOps>>

vars == <<navProc, navCur, navRes, lpOrig, lpAssume, lpBody, lpOps, lpRun, procs, call,
          rwIn, rwOut, rwOps>>

----------------------------------------------------------------------------
(* Bounds *)

MaxStmts == 3       \* longest top-level statement list
MaxDist  == 2       \* largest `dist` argument passed to a navigation call
MaxN     == 6       \* largest value of a loop bound
MaxQ     == 3       \* largest division constant
MaxC     == 2       \* largest literal bound of the inner loop of a hand-written nest
MaxLoopOps == 2     \* longest sequence of loop rewrites

----------------------------------------------------------------------------
(* LoopIR nodes.  A node is [type, name, val, kids]; name is the symbol or   *)
(* operator the node carries, val the literal of a Const, kids a sequence   *)
(* of <<field, children>> pairs, children being a sequence of nodes.        *)

Nd(t, nm, ks) == [type |-> t, name |-> nm, val |-> 0, kids |-> ks]

StmtTypes == {"Assign", "Reduce", "WriteConfig", "Pass", "If", "Seq", "ForAll",
              "Alloc", "Call", "WindowStmt"}

ExprTypes == {"Read", "Const", "USub", "BinOp", "BuiltIn", "WindowExpr",
              "StrideExpr", "ReadConfig"}

w_access == {"Point", "Interval"}

\* fields that hold a list of children (a block); the others hold one node
ListFields == {"body", "orelse", "idx", "args"}

HasField(n, f) == \E k \in 1..Len(n.kids) : n.kids[k][1] = f

Kids(n, f) ==
    IF HasField(n, f)
    THEN (n.kids[CHOOSE k \in 1..Len(n.kids) : n.kids[k][1] = f])[2]
    ELSE <<>>

RECURSIVE NodeAt(_, _)
NodeAt(n, path) ==
    IF path = <<>> THEN n
    ELSE NodeAt(Kids(n, path[1][1])[path[1][2] + 1], Tail(path))

RECURSIVE PathsFrom(_, _)
PathsFrom(n, prefix) ==
    {prefix} \cup
    UNION { UNION { PathsFrom(n.kids[k][2][j], Append(prefix, <<n.kids[k][1], j - 1>>))
                    : j \in 1..Len(n.kids[k][2]) }
            : k \in 1..Len(n.kids) }

Front(s) == SubSeq(s, 1, Len(s) - 1)
Last(s)  == s[Len(s)]

----------------------------------------------------------------------------
(* Sample statements used to build procedures *)

ConstE(v)   == [type |-> "Const", name |-> "", val |-> v, kids |-> <<>>]
ReadE(x)    == Nd("Read", x, << <<"idx", <<>> >> >>)
BinOpE(op, a, b) == Nd("BinOp", op, << <<"lhs", <<a>> >>, <<"rhs", <<b>> >> >>)

PassS == Nd("Pass", "", <<>>)

\* x[0] = 1 + 2
AssignS == Nd("Assign", "x", << <<"idx", <<ConstE(0)>> >>,
                               <<"rhs", <<BinOpE("+", ConstE(1), ConstE(2))>> >> >>)

\* x[0] += a
ReduceS == Nd("Reduce", "x", << <<"idx", <<ConstE(0)>> >>,
                               <<"rhs", <<ReadE("a")>> >> >>)

\* for i in seq(0, 4): pass ; x[0] += a
SeqS == Nd("Seq", "i", << <<"hi", <<ConstE(4)>> >>,
                         <<"body", <<PassS, ReduceS>> >> >>)

\* w = B[0, 0:4]
WindowS == Nd("WindowStmt", "w",
              << <<"rhs", << Nd("WindowExpr", "B",
                     << <<"idx", << Nd("Point", "", << <<"pt", <<ConstE(0)>> >> >>),
                                    Nd("Interval", "", << <<"lo", <<ConstE(0)>> >>,
                                                          <<"hi", <<ConstE(4)>> >> >>) >> >> >>)
                  >> >> >>)

StmtSamples == {PassS, AssignS, SeqS, WindowS}

RECURSIVE SeqsUpTo(_, _)
SeqsUpTo(S, n) ==
    IF n = 0 THEN {<<>>}
    ELSE LET shorter == SeqsUpTo(S, n - 1)
         IN  shorter \cup { Append(s, x) : s \in { t \in shorter : Len(t) = n - 1 }, x \in S }

ProcNode(body) == Nd("proc", "p", << <<"body", body>> >>)

SampleProcs == { ProcNode(b) : b \in SeqsUpTo(StmtSamples, MaxStmts) \ {<<>>} }

----------------------------------------------------------------------------
(* Internal cursors (exo.cursors): positions in a LoopIR tree.              *)
(* A cursor is [k, path, field, lo, hi]: `path` leads to the parent node,   *)
(* `field` is the parent's child list, and [lo, hi) the span of children:   *)
(*   Node  - the child at index lo (hi = lo + 1)                            *)
(*   Gap   - the slot before the child at index lo (hi = lo)                *)
(*   Block - the children lo .. hi-1                                        *)
(* The cursor of the proc node itself has the empty field.                  *)

NodeC(path, f, i)       == [k |-> "Node",  path |-> path, field |-> f, lo |-> i,  hi |-> i + 1]
GapC(path, f, i)        == [k |-> "Gap",   path |-> path, field |-> f, lo |-> i,  hi |-> i]
BlockC(path, f, lo, hi) == [k |-> "Block", path |-> path, field |-> f, lo |-> lo, hi |-> hi]
RootC                   == [k |-> "Node",  path |-> <<>>, field |-> "", lo |-> 0, hi |-> 1]
NoCur                   == [k |-> "None",  path |-> <<>>, field |-> "", lo |-> 0, hi |-> 0]

\* cursor of the node a full path leads to
NodeOfPath(p) == IF p = <<>> THEN RootC ELSE NodeC(Front(p), Last(p)[1], Last(p)[2])

\* full path of the node a Node cursor points to
PathOf(c) == IF c.field = "" THEN <<>> ELSE Append(c.path, <<c.field, c.lo>>)

\* cursor._node()
CNode(root, c) == NodeAt(root, PathOf(c))

\* number of children in the list the cursor lives in
ListLen(root, c) == Len(Kids(NodeAt(root, c.path), c.field))

InList(c) == c.field \in ListFields

\* outcome of a call: a cursor, or the exception it raised
Ok(c)    == [err |-> "", cur |-> c]
Raise(e) == [err |-> e,  cur |-> NoCur]

impl_parent(root, c) ==
    IF c.k = "Node"
    THEN IF c.field = "" THEN Raise("InvalidCursorError") ELSE Ok(NodeOfPath(c.path))
    ELSE Ok(NodeOfPath(c.path))

impl_before(root, c) ==
    CASE c.k = "Gap"  -> IF c.lo = 0 THEN Raise("InvalidCursorError")
                         ELSE Ok(NodeC(c.path, c.field, c.lo - 1))
      [] c.k = "Node" -> IF InList(c) THEN Ok(GapC(c.path, c.field, c.lo))
                         ELSE Raise("InvalidCursorError")
      [] OTHER        -> Ok(GapC(c.path, c.field, c.lo))

impl_after(root, c) ==
    CASE c.k = "Gap"  -> IF c.lo = ListLen(root, c) THEN Raise("InvalidCursorError")
                         ELSE Ok(NodeC(c.path, c.field, c.lo))
      [] c.k = "Node" -> IF InList(c) THEN Ok(GapC(c.path, c.field, c.hi))
                         ELSE Raise("InvalidCursorError")
      [] OTHER        -> Ok(GapC(c.path, c.field, c.hi))

\* the sibling `d` slots earlier / later (the public API always passes d = 1)
impl_prev(root, c, d) ==
    IF InList(c) /\ c.lo - d >= 0
    THEN Ok([c EXCEPT !.lo = c.lo - d, !.hi = c.hi - d])
    ELSE Raise("InvalidCursorError")

impl_next(root, c, d) ==
    IF InList(c) /\ c.hi + d <= ListLen(root, c)
    THEN Ok([c EXCEPT !.lo = c.lo + d, !.hi = c.hi + d])
    ELSE Raise("InvalidCursorError")

impl_as_block(c) == BlockC(c.path, c.field, c.lo, c.hi)

impl_child_node(c, f)        == NodeC(PathOf(c), f, 0)
impl_child_block(root, c, f) == BlockC(PathOf(c), f, 0, Len(Kids(CNode(root, c), f)))

----------------------------------------------------------------------------
(* Public cursors (API_cursors.py): [cls, impl] *)

Pub(cls, impl) == [cls |-> cls, impl |-> impl]
NoPub == Pub("None", NoCur)

StmtCursorClasses == {"AssignCursor", "ReduceCursor", "AssignConfigCursor", "PassCursor",
                      "IfCursor", "ForSeqCursor", "AllocCursor", "CallCursor",
                      "WindowStmtCursor"}

ExprCursorClasses == {"ReadCursor", "ReadConfigCursor", "LiteralCursor", "UnaryMinusCursor",
                      "BinaryOpCursor", "BuiltInFunctionCursor", "WindowExprCursor",
                      "StrideExprCursor"}

\* the class the dispatch of new_Cursor selects for a node type; "" when no
\* branch is taken (the second test for LoopIR.Assign is unreachable, so a
\* Read has no branch)
NodeClass(t) ==
    CASE t = "Assign"      -> "AssignCursor"
      [] t = "Reduce"      -> "ReduceCursor"
      [] t = "WriteConfig" -> "AssignConfigCursor"
      [] t = "Pass"        -> "PassCursor"
      [] t = "If"          -> "IfCursor"
      [] t \in {"ForAll", "Seq"} -> "ForSeqCursor"
      [] t = "Alloc"       -> "AllocCursor"
      [] t = "Call"        -> "CallCursor"
      [] t = "WindowStmt"  -> "WindowStmtCursor"
      [] t = "ReadConfig"  -> "ReadConfigCursor"
      [] t = "Const"       -> "LiteralCursor"
      [] t = "USub"        -> "UnaryMinusCursor"
      [] t = "BinOp"       -> "BinaryOpCursor"
      [] t = "BuiltIn"     -> "BuiltInFunctionCursor"
      [] t = "WindowExpr"  -> "WindowExprCursor"
      [] t = "StrideExpr"  -> "StrideExprCursor"
      [] OTHER             -> ""

PubOk(pc)   == [err |-> "", cur |-> pc]
PubRaise(e) == [err |-> e,  cur |-> NoPub]

new_Cursor(root, impl) ==
    CASE impl.k = "Gap"   -> PubOk(Pub("GapCursor", impl))
      [] impl.k = "Block" ->
            LET xs == SubSeq(Kids(NodeAt(root, impl.path), impl.field), impl.lo + 1, impl.hi)
            IN  IF Len(xs) = 0 THEN PubRaise("AssertionError")
                ELSE IF \A j \in 1..Len(xs) : xs[j].type \in StmtTypes
                     THEN PubOk(Pub("BlockCursor", impl))
                     ELSE IF \A j \in 1..Len(xs) : xs[j].type \in ExprTypes
                          THEN PubOk(Pub("ArgsCursor", impl))
                          ELSE PubRaise("AssertionError")
      [] impl.k = "Node"  ->
            LET cls == NodeClass(CNode(root, impl).type)
            IN  IF cls = "" THEN PubRaise("AssertionError") ELSE PubOk(Pub(cls, impl))
      [] OTHER            -> PubRaise("AssertionError")

\* new_Cursor applied to the outcome of an internal call
Wrap(root, r) == IF r.err # "" THEN PubRaise(r.err) ELSE new_Cursor(root, r.cur)

Cursor_parent(root, pc) ==
    LET p1 == impl_parent(root, pc.impl)
    IN  IF p1.err # "" THEN PubRaise(p1.err)
        ELSE IF CNode(root, p1.cur).type \in w_access
             THEN Wrap(root, impl_parent(root, p1.cur))
             ELSE IF CNode(root, p1.cur).type = "proc"
                  THEN PubRaise("InvalidCursorError")
                  ELSE new_Cursor(root, p1.cur)

Cursor_before(root, pc, dist) ==
    IF pc.cls \in ExprCursorClasses \cup {"ArgsCursor"}
    THEN PubRaise("NotImplementedError")
    ELSE IF dist < 1 THEN PubRaise("AssertionError")
         ELSE Wrap(root, impl_before(root, pc.impl))

\* a slip in after(): it delegates to the internal before()
Cursor_after_before(root, pc, dist) ==
    IF pc.cls \in ExprCursorClasses \cup {"ArgsCursor"}
    THEN PubRaise("NotImplementedError")
    ELSE IF dist < 1 THEN PubRaise("AssertionError")
         ELSE Wrap(root, impl_before(root, pc.impl))

Cursor_after(root, pc, dist) ==
    IF pc.cls \in ExprCursorClasses \cup {"ArgsCursor"}
    THEN PubRaise("NotImplementedError")
    ELSE IF dist < 1 THEN PubRaise("AssertionError")
         ELSE Wrap(root, impl_after(root, pc.impl))

Cursor_prev(root, pc, dist) ==
    IF dist < 1 THEN PubRaise("AssertionError")
    ELSE Wrap(root, impl_prev(root, pc.impl, 1))

Cursor_next(root, pc, dist) ==
    IF dist < 1 THEN PubRaise("AssertionError")
    ELSE Wrap(root, impl_next(root, pc.impl, 1))

StmtCursor_as_block(pc) == Pub("BlockCursor", impl_as_block(pc.impl))

\* the accessors that return one child: rhs(), hi(), cond(), lhs(), arg()
NodeAccessors(cls) ==
    CASE cls \in {"AssignCursor", "ReduceCursor", "AssignConfigCursor"} -> {"rhs"}
      [] cls = "IfCursor"         -> {"cond"}
      [] cls = "ForSeqCursor"     -> {"hi"}
      [] cls = "UnaryMinusCursor" -> {"arg"}
      [] cls = "BinaryOpCursor"   -> {"lhs", "rhs"}
      [] OTHER                    -> {}

child_accessor(root, pc, f) == new_Cursor(root, impl_child_node(pc.impl, f))

\* WindowStmtCursor.winexpr() calls the constructor directly
WindowStmtCursor_winexpr(pc) == Pub("WindowExprCursor", impl_child_node(pc.impl, "rhs"))

\* the accessors that return a block: body(), orelse(), idx(), args()
BlockAccessors(cls) ==
    CASE cls \in {"AssignCursor", "ReduceCursor", "ReadCursor"} -> {"idx"}
      [] cls = "IfCursor"     -> {"body", "orelse"}
      [] cls = "ForSeqCursor" -> {"body"}
      [] cls \in {"CallCursor", "BuiltInFunctionCursor"} -> {"args"}
      [] OTHER                -> {}

block_accessor(root, pc, f) ==
    Pub(IF f \in {"body", "orelse"} THEN "BlockCursor" ELSE "ArgsCursor",
        impl_child_block(root, pc.impl, f))

\* WindowExprCursor.idx(): the cursors of the w-expressions, flattened
WindowExprCursor_idx(root, pc) ==
    LET ws == Kids(CNode(root, pc.impl), "idx")
        wc(j) == NodeC(PathOf(pc.impl), "idx", j - 1)
    IN  UNION { IF ws[j].type = "Interval"
                THEN { new_Cursor(root, impl_child_node(wc(j), "lo")),
                       new_Cursor(root, impl_child_node(wc(j), "hi")) }
                ELSE { new_Cursor(root, impl_child_node(wc(j), "pt")) }
                : j \in 1..Len(ws) }

----------------------------------------------------------------------------
(* SpecNav: a script navigating one procedure with a cursor *)

\* the variables of the other specifications rest at these values
NoRun == [done |-> FALSE, n |-> 0, log |-> <<>>, orig |-> <<>>]

LpIdle ==
    /\ lpOrig = <<>> /\ lpAssume = 0 /\ lpBody = <<>> /\ lpOps = <<>>
    /\ lpRun = NoRun

NoCall ==
    [seq |-> 0, op |-> "", args |-> <<>>, err |-> "", by |-> "", msg |-> <<>>, at |-> 0,
     invoked |-> FALSE, bargs |-> <<>>]

SessIdle == procs = <<>> /\ call = NoCall

RwIdle == rwIn = <<>> /\ rwOut = <<>> /\ rwOps = <<>>

NavIdle ==
    /\ navProc = ProcNode(<<PassS>>)
    /\ navCur = NoPub
    /\ navRes = [op |-> "", dist |-> 0, from |-> NoPub, err |-> "", cur |-> NoPub]

StmtPaths(root) == { p \in PathsFrom(root, <<>>) : NodeAt(root, p).type \in StmtTypes }

NavRecord(op, d, from, r) ==
    [op |-> op, dist |-> d, from |-> from, err |-> r.err, cur |-> r.cur]

\* the call returns r: the script keeps the new cursor, or the old one on a raise
NavStep(op, d, r) ==
    /\ navRes' = NavRecord(op, d, navCur, r)
    /\ navCur' = IF r.err = "" THEN r.cur ELSE navCur
    /\ UNCHANGED navProc
    /\ UNCHANGED lpVars
    /\ UNCHANGED sessVars
    /\ UNCHANGED rwVars

NavInit ==
    /\ LpIdle
    /\ SessIdle
    /\ RwIdle
    /\ navProc \in SampleProcs
    /\ \E p \in StmtPaths(navProc) :
          navCur = Pub(NodeClass(NodeAt(navProc, p).type), NodeOfPath(p))
    /\ navRes = NavRecord("find", 0, NoPub, PubOk(navCur))

NavParent == NavStep("parent", 0, Cursor_parent(navProc, navCur))

NavBefore == \E d \in 1..MaxDist : NavStep("before", d, Cursor_before(navProc, navCur, d))

NavAfter == \E d \in 1..MaxDist : NavStep("after", d, Cursor_after(navProc, navCur, d))

\* prev/next are specified for statement and gap cursors only
NavPrev ==
    /\ navCur.impl.k \in {"Node", "Gap"}
    /\ \E d \in 1..MaxDist : NavStep("prev", d, Cursor_prev(navProc, navCur, d))

NavNext ==
    /\ navCur.impl.k \in {"Node", "Gap"}
    /\ \E d \in 1..MaxDist : NavStep("next", d, Cursor_next(navProc, navCur, d))

NavAsBlock ==
    /\ navCur.cls \in StmtCursorClasses
    /\ NavStep("as_block", 0, PubOk(StmtCursor_as_block(navCur)))

NavChild ==
    \E f \in NodeAccessors(navCur.cls) : NavStep(f, 0, child_accessor(navProc, navCur, f))

NavChildBlock ==
    \E f \in BlockAccessors(navCur.cls) :
        NavStep(f, 0, PubOk(block_accessor(navProc, navCur, f)))

NavWinExpr ==
    /\ navCur.cls = "WindowStmtCursor"
    /\ NavStep("winexpr", 0, PubOk(WindowStmtCursor_winexpr(navCur)))

NavWinIdx ==
    /\ navCur.cls = "WindowExprCursor"
    /\ \E r \in WindowExprCursor_idx(navProc, navCur) : NavStep("widx", 0, r)

NavNext_ ==
    \/ NavParent
    \/ NavBefore
    \/ NavAfter
    \/ NavPrev
    \/ NavNext
    \/ NavAsBlock
    \/ NavChild
    \/ NavChildBlock
    \/ NavWinExpr
    \/ NavWinIdx

SpecNav == NavInit /\ [][NavNext_]_vars

----------------------------------------------------------------------------
(* Navigation claims, checked under SpecNav *)

NavFrom == navRes.from.impl
NavOut  == navRes.cur.impl
NavStmtLike == navRes.from.cls \in StmtCursorClasses \cup {"BlockCursor"}

MovedBy(c, delta) == [c EXCEPT !.lo = c.lo + delta, !.hi = c.hi + delta]

\* C8: for a statement or gap cursor at index i and d >= 1, prev(d) is the
\* cursor of the same kind at i-d and next(d) the one at i+d, raising the
\* invalid-cursor error exactly when that index is out of bounds.
C8_PrevNextDist ==
    /\ (navRes.op = "prev" /\ NavFrom.k \in {"Node", "Gap"} /\ InList(NavFrom)) =>
          IF NavFrom.lo - navRes.dist >= 0
          THEN navRes.err = "" /\ NavOut = MovedBy(NavFrom, 0 - navRes.dist)
          ELSE navRes.err = "InvalidCursorError"
    /\ (navRes.op = "next" /\ NavFrom.k \in {"Node", "Gap"} /\ InList(NavFrom)) =>
          IF NavFrom.hi + navRes.dist <= ListLen(navProc, NavFrom)
          THEN navRes.err = "" /\ NavOut = MovedBy(NavFrom, navRes.dist)
          ELSE navRes.err = "InvalidCursorError"

\* C9: a navigation call that is undefined for the cursor's kind or position
\* raises InvalidCursorError and nothing else, and parent() never returns a
\* cursor to a Point or Interval node.
C9_TypedNavErrors ==
    /\ (navRes.op \in {"before", "after"}
          /\ navRes.from.cls \in ExprCursorClasses \cup {"ArgsCursor"}) =>
          navRes.err = "InvalidCursorError"
    /\ (navRes.op = "parent" /\ NavFrom.k = "Node" /\ NavFrom.path = <<>>) =>
          navRes.err = "InvalidCursorError"
    /\ (navRes.op = "parent" /\ navRes.err = "") =>
          CNode(navProc, NavOut).type \notin w_access

----------------------------------------------------------------------------
(* Execution of LoopIR: the log of the locations the statements write, in   *)
(* order.  Index arithmetic is integer arithmetic with floor division.      *)

SeqLoop(it, hi, body) == Nd("Seq", it, << <<"hi", <<hi>> >>, <<"body", body>> >>)
IfS(cond, body)       == Nd("If", "", << <<"cond", <<cond>> >>, <<"body", body>>,
                                        <<"orelse", <<>> >> >>)
\* buf[idx] += 1
ReduceAt(buf, idx)    == Nd("Reduce", buf, << <<"idx", idx>>, <<"rhs", <<ConstE(1)>> >> >>)

Lhs(e) == Kids(e, "lhs")[1]
Rhs(e) == Kids(e, "rhs")[1]

RECURSIVE Eval(_, _)
Eval(e, env) ==
    CASE e.type = "Const" -> e.val
      [] e.type = "Read"  -> env[e.name]
      [] e.type = "BinOp" ->
            LET a == Eval(Lhs(e), env)
                b == Eval(Rhs(e), env)
            IN  CASE e.name = "+" -> a + b
                  [] e.name = "-" -> a - b
                  [] e.name = "*" -> a * b
                  [] e.name = "/" -> a \div b
                  [] e.name = "%" -> a % b
                  [] e.name = "<" -> IF a < b THEN 1 ELSE 0
                  [] e.name = "==" -> IF a = b THEN 1 ELSE 0

Bind(env, x, v) == [y \in DOMAIN env \cup {x} |-> IF y = x THEN v ELSE env[y]]

RECURSIVE RunStmts(_, _)
RECURSIVE RunLoop(_, _, _, _, _)
RunStmt(s, env) ==
    CASE s.type \in {"Assign", "Reduce"} ->
            << [j \in 1..Len(Kids(s, "idx")) |-> Eval(Kids(s, "idx")[j], env)] >>
      [] s.type \in {"Seq", "ForAll"} ->
            RunLoop(s.name, Eval(Kids(s, "hi")[1], env), Kids(s, "body"), env, 0)
      [] s.type = "If" ->
            IF Eval(Kids(s, "cond")[1], env) = 1
            THEN RunStmts(Kids(s, "body"), env)
            ELSE RunStmts(Kids(s, "orelse"), env)
      [] OTHER -> <<>>

RunStmts(ss, env) ==
    IF ss = <<>> THEN <<>> ELSE RunStmt(ss[1], env) \o RunStmts(Tail(ss), env)

RunLoop(it, n, body, env, k) ==
    IF k >= n THEN <<>>
    ELSE RunStmts(body, Bind(env, it, k)) \o RunLoop(it, n, body, env, k + 1)

\* s[x -> e]
RECURSIVE Subst(_, _, _)
Subst(n, x, e) ==
    IF n.type = "Read" /\ n.name = x /\ Kids(n, "idx") = <<>> THEN e
    ELSE [n EXCEPT !.kids =
            [k \in 1..Len(n.kids) |->
                IF n.type \in {"Seq", "ForAll"} /\ n.name = x /\ n.kids[k][1] = "body"
                THEN n.kids[k]
                ELSE <<n.kids[k][1],
                       [j \in 1..Len(n.kids[k][2]) |-> Subst(n.kids[k][2][j], x, e)]>>]]

SubstAll(ss, x, e) == [j \in 1..Len(ss) |-> Subst(ss[j], x, e)]

----------------------------------------------------------------------------
(* divide_loop and mult_loops *)

Done(ss)        == [err |-> "", stmts |-> ss]
Fail(e)         == [err |-> e,  stmts |-> <<>>]

\* the values the bound expression can take under the procedure's assertions
BoundVals(e, m) ==
    IF e.type = "Const" THEN {e.val}
    ELSE { v \in 1..MaxN : v % m = 0 }

\* LoopIR_scheduling.DoSplit
DoSplit(loop, quot, hi, lo, tail, perfect, m) ==
    LET N     == Kids(loop, "hi")[1]
        body  == Kids(loop, "body")
        q     == ConstE(quot)
        i_main == BinOpE("+", BinOpE("*", q, ReadE(hi)), ReadE(lo))
        Nq    == BinOpE("/", N, q)
        i_tail == BinOpE("+", BinOpE("*", q, Nq), ReadE(lo))
        main  == SeqLoop(hi, Nq, << SeqLoop(lo, q, SubstAll(body, loop.name, i_main)) >>)
    IN  IF perfect
        THEN IF \A v \in BoundVals(N, m) : v % quot = 0
             THEN Done(<<main>>)
             ELSE Fail("SchedulingError")
        ELSE CASE tail = "cut" ->
                    Done(<< main,
                            SeqLoop(lo, BinOpE("-", N, BinOpE("*", q, Nq)),
                                    SubstAll(body, loop.name, i_tail)) >>)
               [] tail = "guard" ->
                    Done(<< SeqLoop(hi, BinOpE("/", BinOpE("+", N, ConstE(quot - 1)), q),
                              << SeqLoop(lo, q,
                                   << IfS(BinOpE("<", i_main, N),
                                          SubstAll(body, loop.name, i_main)) >>) >>) >>)
               [] tail = "cut_and_guard" ->
                    Done(<< main,
                            SeqLoop(hi, ConstE(1),
                              << SeqLoop(lo, q,
                                   << IfS(BinOpE("<", i_tail, N),
                                          SubstAll(body, loop.name, i_tail)) >>) >>) >>)

\* slips in the call of DoSplit: the iterator names swapped, the flag dropped
divide_loop_swapped(loop, div_const, new_iters, tail, perfect, m) ==
    IF div_const = 1 THEN Fail("ValueError")
    ELSE DoSplit(loop, div_const, new_iters[2], new_iters[1], tail, perfect, m)

divide_loop_imperfect(loop, div_const, new_iters, tail, perfect, m) ==
    IF div_const = 1 THEN Fail("ValueError")
    ELSE DoSplit(loop, div_const, new_iters[1], new_iters[2], tail, FALSE, m)

divide_loop(loop, div_const, new_iters, tail, perfect, m) ==
    IF div_const = 1 THEN Fail("ValueError")
    ELSE DoSplit(loop, div_const, new_iters[1], new_iters[2], tail, perfect, m)

IsLoop(s) == s.type \in {"Seq", "ForAll"}

\* the loops NestedForSeqCursorA is meant to let through: the body is exactly
\* one loop
IsNest(loop) ==
    Len(Kids(loop, "body")) = 1 /\ IsLoop(Kids(loop, "body")[1])

\* a slip in the substitution: quotient and remainder exchanged
DoProductLoop_exchanged(outer, k) ==
    LET inner == Kids(outer, "body")[1]
        e     == Kids(outer, "hi")[1]
        c     == Kids(inner, "hi")[1]
    IN  IF c.type # "Const" THEN Fail("SchedulingError")
        ELSE Done(<< SeqLoop(k, BinOpE("*", e, c),
                       SubstAll(SubstAll(Kids(inner, "body"), outer.name,
                                         BinOpE("%", ReadE(k), c)),
                                inner.name, BinOpE("/", ReadE(k), c))) >>)

\* LoopIR_scheduling.DoProductLoop
DoProductLoop(outer, k) ==
    LET inner == Kids(outer, "body")[1]
        e     == Kids(outer, "hi")[1]
        c     == Kids(inner, "hi")[1]
    IN  IF c.type # "Const" THEN Fail("SchedulingError")
        ELSE Done(<< SeqLoop(k, BinOpE("*", e, c),
                       SubstAll(SubstAll(Kids(inner, "body"), outer.name,
                                         BinOpE("/", ReadE(k), c)),
                                inner.name, BinOpE("%", ReadE(k), c))) >>)

\* a slip in mult_loops: the product loop with quotient and remainder exchanged
mult_loops_exchanged(loop, new_iter_name) ==
    IF ~IsNest(loop) THEN Fail("ValueError")
    ELSE DoProductLoop_exchanged(loop, new_iter_name)

mult_loops(loop, new_iter_name) ==
    IF ~IsNest(loop) THEN Fail("ValueError")
    ELSE DoProductLoop(loop, new_iter_name)

\* replace the statement at index `at` (zero-based) by the statements ss
Splice(body, at, ss) == SubSeq(body, 1, at) \o ss \o SubSeq(body, at + 2, Len(body))

----------------------------------------------------------------------------
(* SpecLoop: a procedure with one loop or one loop nest is rewritten by     *)
(* divide_loop and mult_loops and then executed.                            *)

\* the bound of the loop: a literal, or the size argument N
Bounds == { ConstE(c) : c \in 0..MaxN } \cup { ReadE("N") }

\* for i in seq(0, e): x[i] += 1
OneLoop(e) == SeqLoop("i", e, << ReduceAt("x", <<ReadE("i")>>) >>)

\* for i in seq(0, e): for j in seq(0, c): y[i, j] += 1
OneNest(e, c) ==
    SeqLoop("i", e, << SeqLoop("j", ConstE(c), << ReduceAt("y", <<ReadE("i"), ReadE("j")>>) >>) >>)

UsesN(ss) == \E p \in PathsFrom(ProcNode(ss), <<>>) :
                LET n == NodeAt(ProcNode(ss), p) IN n.type = "Read" /\ n.name = "N"

\* the values the size argument can have when the procedure runs
RunVals == IF UsesN(lpOrig) THEN { v \in 1..MaxN : v % lpAssume = 0 } ELSE {0}

LoopInit ==
    /\ NavIdle
    /\ SessIdle
    /\ RwIdle
    /\ \E e \in Bounds :
          /\ lpOrig \in { <<OneLoop(e)>> } \cup { <<OneNest(e, c)>> : c \in 0..MaxC }
          /\ lpAssume \in IF e.type = "Const" THEN {1} ELSE 1..MaxQ
    /\ lpBody = lpOrig
    /\ lpOps = <<>>
    /\ lpRun = NoRun

OpRecord(op, at, q, tail, perfect, r) ==
    [op |-> op, at |-> at, q |-> q, tail |-> tail, perfect |-> perfect, err |-> r.err]

\* a call returns r: a new procedure on success, nothing on a raise
LoopStep(rec, at, r) ==
    /\ lpOps' = Append(lpOps, rec)
    /\ lpBody' = IF r.err = "" THEN Splice(lpBody, at, r.stmts) ELSE lpBody
    /\ lpRun' = NoRun
    /\ UNCHANGED <<lpOrig, lpAssume>>
    /\ UNCHANGED navVars
    /\ UNCHANGED sessVars
    /\ UNCHANGED rwVars

DivideLoop ==
    /\ Len(lpOps) < MaxLoopOps
    /\ \E at \in 0..(Len(lpBody) - 1), q \in 1..MaxQ,
          tail \in {"cut", "guard", "cut_and_guard"}, perfect \in BOOLEAN :
          /\ IsLoop(lpBody[at + 1])
          /\ LET r == divide_loop(lpBody[at + 1], q, <<"io", "ii">>, tail, perfect, lpAssume)
             IN  LoopStep(OpRecord("divide_loop", at, q, tail, perfect, r), at, r)

MultLoops ==
    /\ Len(lpOps) < MaxLoopOps
    /\ \E at \in 0..(Len(lpBody) - 1) :
          /\ IsLoop(lpBody[at + 1])
          /\ LET r == mult_loops(lpBody[at + 1], "k")
             IN  LoopStep(OpRecord("mult_loops", at, 0, "", FALSE, r), at, r)

Execute ==
    /\ \E n \in RunVals :
          LET env == [x \in {"N"} |-> n]
          IN  lpRun' = [done |-> TRUE, n |-> n,
                        log  |-> RunStmts(lpBody, env),
                        orig |-> RunStmts(lpOrig, env)]
    /\ UNCHANGED <<lpOrig, lpAssume, lpBody, lpOps>>
    /\ UNCHANGED navVars
    /\ UNCHANGED sessVars
    /\ UNCHANGED rwVars

LoopNext ==
    \/ DivideLoop
    \/ MultLoops
    \/ Execute

SpecLoop == LoopInit /\ [][LoopNext]_vars

----------------------------------------------------------------------------
(* Loop claims, checked under SpecLoop *)

\* <<0>>, <<1>>, ..., <<n-1>>
Iota(n) == [k \in 1..n |-> <<k - 1>>]

OrigIsLoop == lpOrig # <<>> /\ ~IsLoop(Kids(lpOrig[1], "body")[1])
OrigBound  == Kids(lpOrig[1], "hi")[1]
RunEnv     == [x \in {"N"} |-> lpRun.n]

FirstIs(op) == Len(lpOps) >= 1 /\ lpOps[1].op = op /\ lpOps[1].err = ""
OnlyOp(op)  == Len(lpOps) = 1 /\ FirstIs(op)

\* the first write statement found by descending through loops and guards
RECURSIVE InnerWrite(_)
InnerWrite(s) == IF s.type \in {"Assign", "Reduce"} THEN s ELSE InnerWrite(Kids(s, "body")[1])

HasGuard(ss) == \E p \in PathsFrom(ProcNode(ss), <<>>) : NodeAt(ProcNode(ss), p).type = "If"

\* C4: for every bound N >= 0 and divisor q >= 2, divide_loop with tail
\* 'cut', 'guard' or 'cut_and_guard' yields code that runs the body for
\* i = 0, ..., N-1, each once and in increasing order, the main nest being
\* `for hi: for lo:` with i = q*hi + lo; with N < q and tail 'cut' the main
\* nest runs zero times and the tail loop all N iterations.
C4_DivideLoopVisits ==
    (OnlyOp("divide_loop") /\ ~lpOps[1].perfect) =>
        LET q    == lpOps[1].q
            main == lpBody[1]
        IN  /\ q >= 2
            /\ main.name = "io" /\ Kids(main, "body")[1].name = "ii"
            /\ Kids(InnerWrite(main), "idx")[1]
                  = BinOpE("+", BinOpE("*", ConstE(q), ReadE("io")), ReadE("ii"))
            /\ lpRun.done =>
                  LET N == Eval(OrigBound, RunEnv)
                  IN  /\ lpRun.log = lpRun.orig
                      /\ OrigIsLoop => lpRun.log = Iota(N)
                      /\ (lpOps[1].tail = "cut" /\ N < q) =>
                            /\ RunStmt(lpBody[1], RunEnv) = <<>>
                            /\ RunStmt(lpBody[2], RunEnv) = lpRun.orig

\* C4 witness: a loop with 0 < N < q was divided with tail 'cut' and run
C4_Witness ==
    /\ OnlyOp("divide_loop") /\ ~lpOps[1].perfect /\ lpOps[1].tail = "cut"
    /\ OrigIsLoop /\ lpRun.done
    /\ Eval(OrigBound, RunEnv) > 0 /\ Eval(OrigBound, RunEnv) < lpOps[1].q

\* C5: divide_loop with perfect=True returns a procedure only if q divides
\* every value the bound can take under the procedure's assertions and
\* otherwise raises, leaving no new procedure; the result has no tail loop
\* and no guard and runs the body for i = 0, ..., N-1 in order.
C5_PerfectDivide ==
    (Len(lpOps) = 1 /\ lpOps[1].op = "divide_loop" /\ lpOps[1].perfect) =>
        /\ lpOps[1].err = "" =>
              /\ \A n \in RunVals : Eval(OrigBound, [x \in {"N"} |-> n]) % lpOps[1].q = 0
              /\ Len(lpBody) = 1 /\ ~HasGuard(lpBody)
              /\ lpRun.done => /\ lpRun.log = lpRun.orig
                               /\ OrigIsLoop => lpRun.log = Iota(Eval(OrigBound, RunEnv))
        /\ (\E n \in RunVals : Eval(OrigBound, [x \in {"N"} |-> n]) % lpOps[1].q # 0) =>
              /\ lpOps[1].err # ""
              /\ lpBody = lpOrig

\* C5 witness: a perfect division of a symbolic bound succeeded and was run
C5_Witness ==
    /\ OnlyOp("divide_loop") /\ lpOps[1].perfect
    /\ OrigBound.type = "Read" /\ OrigIsLoop
    /\ lpRun.done /\ lpRun.n > lpOps[1].q

----------------------------------------------------------------------------
(* Python values passed to scheduling operations.  Strings are sequences    *)
(* of tokens (identifiers, numerals, punctuation).                          *)

ProcV(i)  == [t |-> "Procedure", v |-> i]
CurV(c)   == [t |-> "Cursor",    v |-> c]
StrV(tk)  == [t |-> "str",       v |-> tk]
IntV(n)   == [t |-> "int",       v |-> n]
BoolV(b)  == [t |-> "bool",      v |-> b]
ListV(xs) == [t |-> "list",      v |-> xs]
PairV(xs) == [t |-> "tuple",     v |-> xs]
NoneV     == [t |-> "None",      v |-> 0]

Idents   == {"x", "y", "z", "a", "i", "j", "k", "io", "ii", "xs", "p", "g", "r", "t", "u", "N",
             "foo"}
Numerals == {"0", "1", "2", "4"}

NumeralVal(tk) == CASE tk = "0" -> 0 [] tk = "1" -> 1 [] tk = "2" -> 2 [] tk = "4" -> 4

\* prelude.is_valid_name
is_valid_name(x) == x.t = "str" /\ Len(x.v) = 1 /\ x.v[1] \in Idents

\* prelude.is_pos_int
is_pos_int(x) == x.t = "int" /\ x.v > 0

\* a session cursor is a public cursor together with the Procedure it was
\* obtained from: [proc, cls, impl]
SCur(pi, pc) == [proc |-> pi, cls |-> pc.cls, impl |-> pc.impl]
PubOf(sc)    == Pub(sc.cls, sc.impl)
NoSCur       == [proc |-> 0, cls |-> "None", impl |-> NoCur]

IsCursor(x)      == x.t = "Cursor"
IsStmtCursor(x)  == IsCursor(x) /\ x.v.cls \in StmtCursorClasses
IsBlockCursor(x) == IsCursor(x) /\ x.v.cls = "BlockCursor"
IsGapCursor(x)   == IsCursor(x) /\ x.v.cls = "GapCursor"

----------------------------------------------------------------------------
(* Procedure.find: the pattern matcher on the statement forms               *)
(*   pass | NAME = _ | NAME += _ | for NAME in _: _ | NAME : _ | NAME(_)    *)
(*   | for NAME in _: for NAME in _: _                                      *)
(* with an optional trailing `# k`; matches are numbered in pre-order.      *)

RECURSIVE PreOrder(_, _)
RECURSIVE PreOrderList(_, _, _)
\* the paths of the statements below node n (at path `at`), in pre-order
PreOrder(n, at) ==
    (IF n.type \in StmtTypes THEN <<at>> ELSE <<>>)
      \o PreOrderList(n, at, "body") \o PreOrderList(n, at, "orelse")

RECURSIVE PreOrderFrom(_, _, _, _)
PreOrderFrom(n, at, f, j) ==
    IF j > Len(Kids(n, f)) THEN <<>>
    ELSE PreOrder(Kids(n, f)[j], Append(at, <<f, j - 1>>)) \o PreOrderFrom(n, at, f, j + 1)

PreOrderList(n, at, f) == PreOrderFrom(n, at, f, 1)

HasCount(tk) == Len(tk) >= 2 /\ tk[Len(tk) - 1] = "#" /\ tk[Len(tk)] \in Numerals
PatBody(tk)  == IF HasCount(tk) THEN SubSeq(tk, 1, Len(tk) - 2) ELSE tk
PatCount(tk) == IF HasCount(tk) THEN NumeralVal(tk[Len(tk)]) ELSE 1

RECURSIVE PatMatches(_, _)
PatMatches(pat, n) ==
    \/ pat = <<"pass">> /\ n.type = "Pass"
    \/ Len(pat) = 3 /\ pat[2] = "=" /\ pat[3] = "_" /\ n.type = "Assign" /\ n.name = pat[1]
    \/ Len(pat) = 3 /\ pat[2] = "+=" /\ pat[3] = "_" /\ n.type = "Reduce" /\ n.name = pat[1]
    \/ Len(pat) = 3 /\ pat[2] = ":" /\ pat[3] = "_" /\ n.type = "Alloc" /\ n.name = pat[1]
    \/ Len(pat) = 6 /\ pat[1] = "for" /\ pat[3] = "in" /\ pat[4] = "_" /\ pat[5] = ":"
          /\ pat[6] = "_" /\ n.type \in {"Seq", "ForAll"} /\ n.name = pat[2]
    \/ Len(pat) = 4 /\ pat[2] = "(" /\ pat[3] = "_" /\ pat[4] = ")"
          /\ n.type = "Call" /\ n.name = pat[1]
    \/ Len(pat) = 11 /\ PatMatches(SubSeq(pat, 1, 5) \o <<"_">>, n)
          /\ Len(Kids(n, "body")) = 1 /\ PatMatches(SubSeq(pat, 6, 11), Kids(n, "body")[1])

SelectSeq2(sq, Test(_)) ==
    LET F[j \in 0..Len(sq)] ==
            IF j = 0 THEN <<>>
            ELSE IF Test(sq[j]) THEN Append(F[j - 1], sq[j]) ELSE F[j - 1]
    IN  F[Len(sq)]

\* Procedure.find(pattern): the cursor of the selected match; failing to
\* match raises from find itself
find(ir, pi, tk) ==
    LET ok(path) == PatMatches(PatBody(tk), NodeAt(ir, path))
        ms == SelectSeq2(PreOrder(ir, <<>>), ok)
        c  == PatCount(tk)
    IN  IF c >= 1 /\ c <= Len(ms)
        THEN [err |-> "", cur |-> SCur(pi, new_Cursor(ir, NodeOfPath(ms[c])).cur)]
        ELSE [err |-> "SchedulingError", cur |-> NoSCur]

----------------------------------------------------------------------------
(* Argument processors (API_scheduling.py).  A processor is described by    *)
(* [cls, elem, n, opts, ref]: its class, the nested processor (ListA), its  *)
(* numeric parameter (block_size, length), the EnumA values and the name of *)
(* the argument it refers to (CustomWindowExprA).                           *)

AProc(cls)            == [cls |-> cls, elem |-> <<>>, n |-> 0, opts |-> <<>>, ref |-> ""]
BlockCursorA_(size)   == [AProc("BlockCursorA") EXCEPT !.n = size]
ListA_(elem, length)  == [AProc("ListA") EXCEPT !.elem = <<elem>>, !.n = length]
EnumA_(vals)          == [AProc("EnumA") EXCEPT !.opts = vals]
CustomWindowExprA_(r) == [AProc("CustomWindowExprA") EXCEPT !.ref = r]

Param(nm, ap) == [name |-> nm, ap |-> ap]

\* sched_op prepends ProcA: the signature of each operation with the
\* processor of each parameter
Sig(op) ==
    CASE op = "rename" ->
            << Param("proc", AProc("ProcA")), Param("name", AProc("NameA")) >>
      [] op = "insert_pass" ->
            << Param("proc", AProc("ProcA")), Param("gap_cursor", AProc("GapCursorA")) >>
      [] op = "delete_pass" ->
            << Param("proc", AProc("ProcA")) >>
      [] op = "reorder_stmts" ->
            << Param("proc", AProc("ProcA")), Param("block_cursor", BlockCursorA_(2)) >>
      [] op = "stage_mem" ->
            << Param("proc", AProc("ProcA")), Param("block_cursor", BlockCursorA_(0)),
               Param("win_expr", CustomWindowExprA_("block_cursor")),
               Param("new_buf_name", AProc("NameA")), Param("accum", AProc("BoolA")) >>
      [] op = "divide_loop" ->
            << Param("proc", AProc("ProcA")), Param("loop_cursor", AProc("ForSeqCursorA")),
               Param("div_const", AProc("PosIntA")),
               Param("new_iters", ListA_(AProc("NameA"), 2)),
               Param("tail", EnumA_(<<StrV(<<"cut">>), StrV(<<"guard">>),
                                      StrV(<<"cut_and_guard">>)>>)),
               Param("perfect", AProc("BoolA")) >>
      [] op = "inline" ->
            << Param("proc", AProc("ProcA")), Param("call_cursor", AProc("CallCursorA")) >>
      [] op = "call_eqv" ->
            << Param("proc", AProc("ProcA")), Param("call_cursor", AProc("CallCursorA")),
               Param("eqv_proc", AProc("ProcA")) >>
      [] op = "lift_alloc" ->
            << Param("proc", AProc("ProcA")), Param("alloc_cursor", AProc("AllocCursorA")),
               Param("n_lifts", AProc("PosIntA")) >>
      [] op = "reorder_loops" ->
            << Param("proc", AProc("ProcA")),
               Param("nested_loops", AProc("NestedForSeqCursorA")) >>

\* the default values of the optional parameters
Defaults(op) ==
    CASE op = "stage_mem"   -> [accum |-> BoolV(FALSE)]
      [] op = "divide_loop" -> [tail |-> StrV(<<"guard">>), perfect |-> BoolV(FALSE)]
      [] op = "lift_alloc"  -> [n_lifts |-> IntV(1)]
      [] OTHER              -> [none |-> NoneV]

\* ArgumentProcessor.setdata, as build_sched_op calls it for parameter k
\* (one-based) of op: the zero-based position, the parameter name, the
\* function name
setdata(op, k) == [i |-> k - 1, arg_name |-> Sig(op)[k].name, f_name |-> op]

ToNumeral(n) ==
    CASE n = 0 -> "0" [] n = 1 -> "1" [] n = 2 -> "2" [] n = 3 -> "3" [] n = 4 -> "4"
      [] n = 5 -> "5" [] OTHER -> "?"

\* f"argument {self.i}, '{self.arg_name}' to {self.f_name}: {message}"
Format(data, message) ==
    <<"argument", ToNumeral(data.i), ",", "'", data.arg_name, "'", "to", data.f_name, ":",
      message>>

AOk(v)             == [err |-> "", by |-> "", msg |-> <<>>, val |-> v]
ARaise(e, by, msg) == [err |-> e, by |-> by, msg |-> msg, val |-> NoneV]

\* ArgumentProcessor.err
err(data, message, Error) == ARaise(Error, "argproc", Format(data, message))

\* all_args[name]
Named(op, bargs, name) ==
    bargs[CHOOSE k \in 1..Len(Sig(op)) : Sig(op)[k].name = name]

\* NameCountA on a fresh instance inside try/except: the name and count of
\* `<ident> [# <int>]?`, or nothing when the call raises
NameCountMatch(x) ==
    /\ x.t = "str"
    /\ \/ Len(x.v) = 1 /\ x.v[1] \in Idents
       \/ Len(x.v) = 3 /\ x.v[1] \in Idents /\ x.v[2] = "#" /\ x.v[3] \in Numerals

CountSuffix(x) == IF Len(x.v) = 3 THEN <<"#", x.v[3]>> ELSE <<>>

\* StmtCursorA.__call__; the session procedures are `ps`
\* the outcome m of proc.find(pattern), checked to be a statement cursor
StmtMatch(data, m) ==
    IF m.err # "" THEN ARaise(m.err, "find", <<"failed to find matches">>)
    ELSE IF m.cur.cls \notin StmtCursorClasses
         THEN err(data, "expected pattern to match a StmtCursor", "TypeError")
         ELSE AOk(CurV(m.cur))

StmtCursorA(data, pat, proc, ps) ==
    IF IsStmtCursor(pat) THEN AOk(pat)
    ELSE IF IsCursor(pat) THEN err(data, "expected an StmtCursor", "TypeError")
    ELSE IF pat.t # "str" THEN err(data, "expected a StmtCursor or pattern string", "TypeError")
    ELSE StmtMatch(data, find(ps[proc.v].ir, proc.v, pat.v))

\* the cursor r of the base class, checked to be a loop cursor
ForSeqCheck(data, r) ==
    IF r.err # "" THEN r
    ELSE IF r.val.v.cls # "ForSeqCursor"
         THEN err(data, "expected a ForSeqCursor", "TypeError")
         ELSE r

ForSeqCursorA(data, pat, proc, ps) ==
    ForSeqCheck(data,
                StmtCursorA(data,
                            IF NameCountMatch(pat)
                            THEN StrV(<<"for", pat.v[1], "in", "_", ":", "_">>
                                        \o CountSuffix(pat))
                            ELSE pat,
                            proc, ps))

\* AllocCursorA.__call__: `x` and `x #k` stand for `x : _` and `x : _ #k`
AllocCursorA(data, alloc_pattern, proc, ps) ==
    LET r == StmtCursorA(data,
                         IF NameCountMatch(alloc_pattern)
                         THEN StrV(<<alloc_pattern.v[1], ":", "_">>
                                     \o CountSuffix(alloc_pattern))
                         ELSE alloc_pattern,
                         proc, ps)
    IN  IF r.err # "" THEN r
        ELSE IF r.val.v.cls # "AllocCursor"
             THEN err(data, "expected an AllocCursor", "TypeError")
             ELSE r

\* CallCursorA.__call__: a Procedure stands for `name(_)`; for `name` and
\* `name #k` the count is formatted and then left out of the pattern
CallCursorA(data, call_pattern, proc, ps) ==
    LET named == IF call_pattern.t = "Procedure"
                 THEN StrV(<<ps[call_pattern.v].ir.name, "(", "_", ")">>)
                 ELSE call_pattern
        r == StmtCursorA(data,
                         IF NameCountMatch(named)
                         THEN StrV(<<named.v[1], "(", "_", ")">>)
                         ELSE named,
                         proc, ps)
    IN  IF r.err # "" THEN r
        ELSE IF r.val.v.cls # "CallCursor"
             THEN err(data, "expected a CallCursor", "TypeError")
             ELSE r

BlockLen(c) == c.impl.hi - c.impl.lo

\* BlockCursor.__getitem__: self._impl[i], the internal cursor of the i-th
\* statement, which is of no public cursor class
BlockCursor_getitem(c, i) ==
    [cls |-> "exo.cursors.Node", impl |-> NodeC(c.impl.path, c.impl.field, c.impl.lo + i)]

\* _name_name_count_re: `<ident> <ident> [# <int>]?`
NameNameCountMatch(x) ==
    /\ x.t = "str"
    /\ \/ Len(x.v) = 2 /\ x.v[1] \in Idents /\ x.v[2] \in Idents
       \/ Len(x.v) = 4 /\ x.v[1] \in Idents /\ x.v[2] \in Idents
             /\ x.v[3] = "#" /\ x.v[4] \in Numerals

\* NestedForSeqCursorA.__call__.  match_result[3] is the text `#k`, and the
\* pattern gets a `#` of its own in front of it.
NestedForSeqCursorA(data, loops_pattern, proc, ps) ==
    IF IsCursor(loops_pattern) /\ loops_pattern.v.cls = "ForSeqCursor"
    THEN LET body == block_accessor(ps[loops_pattern.v.proc].ir, PubOf(loops_pattern.v), "body")
         IN  IF BlockLen(body) # 1 \/ BlockCursor_getitem(body, 0).cls # "ForSeqCursor"
             THEN err(data, "expected the body of the outer loop to be a single loop",
                      "ValueError")
             ELSE AOk(loops_pattern)
    ELSE IF IsCursor(loops_pattern) THEN err(data, "expected a ForSeqCursor", "TypeError")
    ELSE IF NameNameCountMatch(loops_pattern)
         THEN StmtCursorA(data,
                          StrV(<<"for", loops_pattern.v[1], "in", "_", ":",
                                 "for", loops_pattern.v[2], "in", "_", ":", "_">>
                                 \o (IF Len(loops_pattern.v) = 4
                                     THEN <<"#", "#", loops_pattern.v[4]>> ELSE <<>>)),
                          proc, ps)
         ELSE err(data, "expected a ForSeqCursor, pattern match string, or shorthand",
                  "TypeError")

\* the outcome m of proc.find(pattern), turned into a block cursor
BlockMatch(data, m) ==
    IF m.err # "" THEN ARaise(m.err, "find", <<"failed to find matches">>)
    ELSE IF m.cur.cls \in StmtCursorClasses
         THEN AOk(CurV(SCur(m.cur.proc, StmtCursor_as_block(PubOf(m.cur)))))
         ELSE IF m.cur.cls # "BlockCursor"
              THEN err(data, "expected pattern to match a BlockCursor", "TypeError")
              ELSE AOk(CurV(m.cur))

\* "regardless, check block size"
BlockSizeCheck(data, block_size, found) ==
    IF found.err # "" THEN found
    ELSE IF block_size # 0 /\ BlockLen(found.val.v) # block_size
         THEN err(data, "expected a block of the given size", "ValueError")
         ELSE found

BlockCursorA(data, block_size, pat, proc, ps) ==
    BlockSizeCheck(data, block_size,
        IF IsBlockCursor(pat) THEN AOk(pat)
        ELSE IF IsStmtCursor(pat)
             THEN AOk(CurV(SCur(pat.v.proc, StmtCursor_as_block(PubOf(pat.v)))))
        ELSE IF IsCursor(pat)
             THEN err(data, "expected a StmtCursor or BlockCursor", "TypeError")
        ELSE IF pat.t # "str"
             THEN err(data, "expected a Cursor or pattern string", "TypeError")
        ELSE BlockMatch(data, find(ps[proc.v].ir, proc.v, pat.v)))

GapCursorA(data, gap_cursor) ==
    IF ~IsGapCursor(gap_cursor) THEN err(data, "expected a GapCursor", "TypeError")
    ELSE AOk(gap_cursor)

ProcA(data, proc) ==
    IF proc.t # "Procedure" THEN err(data, "expected a Procedure object", "TypeError")
    ELSE AOk(proc)

NameA(data, name) ==
    IF ~is_valid_name(name) THEN err(data, "expected a valid name", "TypeError")
    ELSE AOk(name)

PosIntA(data, val) ==
    IF ~is_pos_int(val) THEN err(data, "expected a positive integer", "TypeError")
    ELSE AOk(val)

BoolA(data, bval) ==
    IF bval.t # "bool" THEN err(data, "expected a bool", "TypeError")
    ELSE AOk(bval)

EnumA(data, enum_vals, arg) ==
    IF \A j \in 1..Len(enum_vals) : enum_vals[j] # arg
    THEN err(data, "expected one of the following values", "ValueError")
    ELSE AOk(arg)

ExprV(e) == [t |-> "expr", v |-> e]

\* the names a code fragment may refer to at the statement with path `at`:
\* the procedure's arguments and the iterators of the enclosing loops
ProcArgs == {"x", "y", "a", "N"}

InScope(ir, at, nm) ==
    \/ nm \in ProcArgs
    \/ \E j \in 1..Len(at) :
          LET n == NodeAt(ir, SubSeq(at, 1, j - 1))
          IN  n.type \in {"Seq", "ForAll"} /\ n.name = nm

\* parse_fragment on a one-token expression
parse_fragment(ir, tk, ctxt) ==
    IF Len(tk) = 1 /\ tk[1] \in Numerals THEN AOk(ExprV(ConstE(NumeralVal(tk[1]))))
    ELSE IF Len(tk) = 1 /\ tk[1] \in Idents /\ InScope(ir, ctxt, tk[1])
         THEN AOk(ExprV(ReadE(tk[1])))
         ELSE ARaise("ParseFragmentError", "parse_fragment", <<"cannot parse fragment">>)

\* NewExprA._get_ctxt_stmt: the path of the statement after the gap that
\* precedes the cursor
get_ctxt_stmt(ir, cursor) ==
    LET gap == IF cursor.cls = "GapCursor" THEN PubOk(PubOf(cursor))
               ELSE Cursor_before(ir, PubOf(cursor), 1)
        stmtc == Cursor_after(ir, gap.cur, 1)
    IN  PathOf(stmtc.cur.impl)

\* args.split(","): the token runs between commas
RECURSIVE SplitAt(_, _)
SplitAt(tk, sep) ==
    IF \A j \in 1..Len(tk) : tk[j] # sep THEN <<tk>>
    ELSE LET j == CHOOSE j \in 1..Len(tk) :
                    tk[j] = sep /\ \A h \in 1..(j - 1) : tk[h] # sep
         IN  <<SubSeq(tk, 1, j - 1)>> \o SplitAt(SubSeq(tk, j + 1, Len(tk)), sep)

\* the first error among the results rs, or the list of their values
Collect(rs) ==
    IF \E j \in 1..Len(rs) : rs[j].err # ""
    THEN rs[CHOOSE j \in 1..Len(rs) :
                rs[j].err # "" /\ \A h \in 1..(j - 1) : rs[h].err = ""]
    ELSE AOk(ListV([j \in 1..Len(rs) |-> rs[j].val]))

\* re.match(r"(\w+)\[([^\]]+)\]", expr_str): a word, `[`, a non-empty run
\* without `]`, then `]`
WindowMatch(tk) ==
    /\ Len(tk) >= 4 /\ tk[1] \in Idents \cup Numerals \cup {"2x"} /\ tk[2] = "["
    /\ tk[3] # "]"
    /\ \E j \in 4..Len(tk) : tk[j] = "]"

WindowArgs(tk) ==
    LET close == CHOOSE j \in 4..Len(tk) : tk[j] = "]" /\ \A h \in 3..(j - 1) : tk[h] # "]"
    IN  SubSeq(tk, 3, close - 1)

\* (lo, hi) of a slice, or the first error of the two parses
Slice(lo, hi) ==
    IF lo.err # "" THEN lo
    ELSE IF hi.err # "" THEN hi
         ELSE AOk(PairV(<<lo.val, hi.val>>))

\* parse_arg in CustomWindowExprA.__call__: a point, or a slice `lo : hi`
parse_arg(ir, a, ctxt) ==
    IF Len(a) = 3 /\ a[2] = ":"
    THEN Slice(parse_fragment(ir, <<a[1]>>, ctxt), parse_fragment(ir, <<a[3]>>, ctxt))
    ELSE parse_fragment(ir, a, ctxt)

\* return buf_name, args
WindowOf(buf_name, args) ==
    IF args.err # "" THEN args ELSE AOk(PairV(<<StrV(<<buf_name>>), args.val>>))

parse_args(ir, chunks, ctxt) ==
    Collect([j \in 1..Len(chunks) |-> parse_arg(ir, chunks[j], ctxt)])

\* CustomWindowExprA.__call__ past the look-up of proc and ctxt_stmt; the
\* failures of the format checks are raised directly, not through self.err
ParseWindow(ir, ctxt, expr_str) ==
    IF is_valid_name(expr_str) THEN AOk(PairV(<<expr_str, ListV(<<>>)>>))
    ELSE IF expr_str.t # "str"
         THEN ARaise("TypeError", "argproc", <<"expected string or bytes-like object">>)
    ELSE IF ~WindowMatch(expr_str.v)
         THEN ARaise("ValueError", "argproc",
                     <<"expected windowing string of the form 'name[args]'">>)
    ELSE IF expr_str.v[1] \notin Idents
         THEN ARaise("ValueError", "argproc", <<"is not a valid name">>)
    ELSE WindowOf(expr_str.v[1],
                  parse_args(ir, SplitAt(WindowArgs(expr_str.v), ","), ctxt))

\* CustomWindowExprA.__call__
CustomWindowExprA(data, ref, expr_str, op, bargs, ps) ==
    ParseWindow(ps[Named(op, bargs, "proc").v].ir,
                get_ctxt_stmt(ps[Named(op, bargs, ref).v.proc].ir, Named(op, bargs, ref).v),
                expr_str)

\* ListA.__call__ with list_only = False; results of the element processor
\* are passed in as elem_results
ListA(data, fixed_length, xs, elem_results) ==
    IF xs.t \notin {"list", "tuple"} THEN err(data, "expected a list or tuple", "TypeError")
    ELSE IF fixed_length # 0 /\ Len(xs.v) # fixed_length
         THEN err(data, "expected a list of the given length", "TypeError")
         ELSE Collect(elem_results)

\* elem_arg_proc(x, all_args); the element processors of the signatures
\* above look at the element alone
RunElemAP(ap, data, arg) ==
    CASE ap.cls = "NameA"   -> NameA(data, arg)
      [] ap.cls = "PosIntA" -> PosIntA(data, arg)
      [] ap.cls = "BoolA"   -> BoolA(data, arg)
      [] ap.cls = "EnumA"   -> EnumA(data, ap.opts, arg)

\* argp(arg, bargs) for the processor `ap` carrying `data`; ListA.setdata
\* hands the same data to the element processor
RunAP(ap, data, arg, op, bargs, ps) ==
    CASE ap.cls = "ProcA"         -> ProcA(data, arg)
      [] ap.cls = "NameA"         -> NameA(data, arg)
      [] ap.cls = "PosIntA"       -> PosIntA(data, arg)
      [] ap.cls = "BoolA"         -> BoolA(data, arg)
      [] ap.cls = "EnumA"         -> EnumA(data, ap.opts, arg)
      [] ap.cls = "GapCursorA"    -> GapCursorA(data, arg)
      [] ap.cls = "StmtCursorA"   -> StmtCursorA(data, arg, Named(op, bargs, "proc"), ps)
      [] ap.cls = "ForSeqCursorA" -> ForSeqCursorA(data, arg, Named(op, bargs, "proc"), ps)
      [] ap.cls = "AllocCursorA"  -> AllocCursorA(data, arg, Named(op, bargs, "proc"), ps)
      [] ap.cls = "CallCursorA"   -> CallCursorA(data, arg, Named(op, bargs, "proc"), ps)
      [] ap.cls = "NestedForSeqCursorA" ->
            NestedForSeqCursorA(data, arg, Named(op, bargs, "proc"), ps)
      [] ap.cls = "BlockCursorA"  ->
            BlockCursorA(data, ap.n, arg, Named(op, bargs, "proc"), ps)
      [] ap.cls = "CustomWindowExprA" ->
            CustomWindowExprA(data, ap.ref, arg, op, bargs, ps)
      [] ap.cls = "ListA" ->
            ListA(data, ap.n, arg,
                  IF arg.t \in {"list", "tuple"}
                  THEN [j \in 1..Len(arg.v) |-> RunElemAP(ap.elem[1], data, arg.v[j])]
                  ELSE <<>>)

\* bargs[nm] = r, the outcome of the processor of parameter k
Processed(bargs, k, r) ==
    IF r.err # "" THEN [err |-> r.err, by |-> r.by, msg |-> r.msg, at |-> k, bargs |-> bargs]
    ELSE [err |-> "", by |-> "", msg |-> <<>>, at |-> 0, bargs |-> [bargs EXCEPT ![k] = r.val]]

\* the loop of AtomicSchedulingOp.__call__ over the processors:
\* bargs[nm] = argp(bargs[nm], bargs), stopping at the first processor that
\* raises.  The result is taken after parameter k0 - 1 .. Len(bargs).
ProcessArgs(op, bargs, k0, ps) ==
    LET F[k \in (k0 - 1)..Len(bargs)] ==
            IF k = k0 - 1
            THEN [err |-> "", by |-> "", msg |-> <<>>, at |-> 0, bargs |-> bargs]
            ELSE IF F[k - 1].err # "" THEN F[k - 1]
                 ELSE Processed(F[k - 1].bargs, k,
                                RunAP(Sig(op)[k].ap, setdata(op, k), bargs[k], op,
                                      F[k - 1].bargs, ps))
    IN  F[Len(bargs)]

----------------------------------------------------------------------------
(* Execution of LoopIR on a store.  A store is [mem, log]: mem maps a key   *)
(* <<name, i1, ..., in>> (a buffer element, a scalar, an iterator or a size *)
(* <<name>>) to its value, log is the sequence of buffer elements accessed. *)
(* Booleans are 1 and 0.  A key that was never written reads as 0.          *)

TrueE  == [type |-> "Const", name |-> "bool", val |-> 1, kids |-> <<>>]
FalseE == [type |-> "Const", name |-> "bool", val |-> 0, kids |-> <<>>]

ReadX(buf, idx)          == Nd("Read", buf, << <<"idx", idx>> >>)
AssignX(buf, idx, rhs)   == Nd("Assign", buf, << <<"idx", idx>>, <<"rhs", <<rhs>> >> >>)
ReduceX(buf, idx, rhs)   == Nd("Reduce", buf, << <<"idx", idx>>, <<"rhs", <<rhs>> >> >>)
IfElse(cond, body, orelse) ==
    Nd("If", "", << <<"cond", <<cond>> >>, <<"body", body>>, <<"orelse", orelse>> >>)
\* name : R[extents]
AllocT(buf, extents)     == Nd("Alloc", buf, << <<"hi", extents>> >>)

Get(mem, key) == IF key \in DOMAIN mem THEN mem[key] ELSE 0
Put(mem, key, v) == [k \in DOMAIN mem \cup {key} |-> IF k = key THEN v ELSE mem[k]]

Truth(b) == IF b THEN 1 ELSE 0

RECURSIVE EvalM(_, _)
KeyOf(n, mem) ==
    <<n.name>> \o [j \in 1..Len(Kids(n, "idx")) |-> EvalM(Kids(n, "idx")[j], mem)]

EvalM(e, mem) ==
    CASE e.type = "Const" -> e.val
      [] e.type = "Read"  -> Get(mem, KeyOf(e, mem))
      [] e.type = "USub"  -> 0 - EvalM(Kids(e, "arg")[1], mem)
      [] e.type = "BinOp" ->
            LET a == EvalM(Lhs(e), mem)
                b == EvalM(Rhs(e), mem)
            IN  CASE e.name = "+"   -> a + b
                  [] e.name = "-"   -> a - b
                  [] e.name = "*"   -> a * b
                  [] e.name = "/"   -> IF b = 0 THEN 0 ELSE a \div b
                  [] e.name = "%"   -> IF b = 0 THEN 0 ELSE a % b
                  [] e.name = "<"   -> Truth(a < b)
                  [] e.name = ">"   -> Truth(a > b)
                  [] e.name = "<="  -> Truth(a <= b)
                  [] e.name = ">="  -> Truth(a >= b)
                  [] e.name = "=="  -> Truth(a = b)
                  [] e.name = "and" -> Truth(a = 1 /\ b = 1)
                  [] e.name = "or"  -> Truth(a = 1 \/ b = 1)

\* the buffer elements an expression reads, in evaluation order
RECURSIVE ReadsIn(_, _)
ReadsInAll(es, mem) ==
    LET F[j \in 0..Len(es)] == IF j = 0 THEN <<>> ELSE F[j - 1] \o ReadsIn(es[j], mem)
    IN  F[Len(es)]

ReadsIn(e, mem) ==
    CASE e.type = "Read"  ->
            ReadsInAll(Kids(e, "idx"), mem)
              \o (IF Kids(e, "idx") = <<>> THEN <<>> ELSE <<KeyOf(e, mem)>>)
      [] e.type = "USub"  -> ReadsIn(Kids(e, "arg")[1], mem)
      [] e.type = "BinOp" -> ReadsIn(Lhs(e), mem) \o ReadsIn(Rhs(e), mem)
      [] OTHER            -> <<>>

Store(mem) == [mem |-> mem, log |-> <<>>]

RECURSIVE ExecStmts(_, _)
RECURSIVE ExecLoop(_, _, _, _, _)
ExecStmt(s, st) ==
    CASE s.type = "Assign" ->
            [mem |-> Put(st.mem, KeyOf(s, st.mem), EvalM(Rhs(s), st.mem)),
             log |-> st.log \o ReadsInAll(Kids(s, "idx"), st.mem) \o ReadsIn(Rhs(s), st.mem)
                       \o <<KeyOf(s, st.mem)>>]
      [] s.type = "Reduce" ->
            [mem |-> Put(st.mem, KeyOf(s, st.mem),
                         Get(st.mem, KeyOf(s, st.mem)) + EvalM(Rhs(s), st.mem)),
             log |-> st.log \o ReadsInAll(Kids(s, "idx"), st.mem) \o ReadsIn(Rhs(s), st.mem)
                       \o <<KeyOf(s, st.mem)>>]
      [] s.type \in {"Seq", "ForAll"} ->
            LET hi  == EvalM(Kids(s, "hi")[1], st.mem)
                out == ExecLoop(s.name, hi, Kids(s, "body"), st, 0)
            IN  [mem |-> [k \in DOMAIN out.mem \ ({<<s.name>>} \ DOMAIN st.mem) |->
                            IF k = <<s.name>> THEN st.mem[k] ELSE out.mem[k]],
                 log |-> out.log]
      [] s.type = "If" ->
            IF EvalM(Kids(s, "cond")[1], st.mem) = 1
            THEN ExecStmts(Kids(s, "body"), st)
            ELSE ExecStmts(Kids(s, "orelse"), st)
      [] OTHER -> st

ExecStmts(ss, st) ==
    IF ss = <<>> THEN st ELSE ExecStmts(Tail(ss), ExecStmt(ss[1], st))

ExecLoop(it, n, body, st, k) ==
    IF k >= n THEN st
    ELSE ExecLoop(it, n, body,
                  ExecStmts(body, [st EXCEPT !.mem = Put(st.mem, <<it>>, k)]), k + 1)

\* two stores hold the same values
SameMem(m1, m2) == \A k \in DOMAIN m1 \cup DOMAIN m2 : Get(m1, k) = Get(m2, k)


\* the values the size argument n of a procedure can take
MaxSize == 3
SizeStores == { [k \in {<<"n">>} |-> v] : v \in 1..MaxSize }

\* the runs of the two bodies end in the same store, for every size
Equivalent(old, new) ==
    \A mem \in SizeStores :
        SameMem(ExecStmts(old, Store(mem)).mem, ExecStmts(new, Store(mem)).mem)

\* a rewrite is returned only when it preserves the meaning of the procedure
Preserving(old, new) == IF Equivalent(old, new) THEN Done(new) ELSE Fail("SchedulingError")

----------------------------------------------------------------------------
(* Rewrites on LoopIR trees *)

SetKids(n, f, xs) ==
    [n EXCEPT !.kids = [k \in 1..Len(n.kids) |->
                           IF n.kids[k][1] = f THEN <<f, xs>> ELSE n.kids[k]]]

\* the tree with the child list `f` of the node at `path` replaced by xs
RECURSIVE UpdateAt(_, _, _, _)
UpdateAt(n, path, f, xs) ==
    IF path = <<>> THEN SetKids(n, f, xs)
    ELSE LET g  == path[1][1]
             j  == path[1][2] + 1
         IN  SetKids(n, g, [Kids(n, g) EXCEPT ![j] = UpdateAt(Kids(n, g)[j], Tail(path), f, xs)])

ListOf(ir, c) == Kids(NodeAt(ir, c.path), c.field)

\* statements carry an identity in `val`; new statements get fresh ones
SId(st, id) == [st EXCEPT !.val = id]

StmtIds(ir) == { NodeAt(ir, q).val : q \in StmtPaths(ir) }

MaxOf(S) == IF S = {} THEN 0 ELSE CHOOSE m \in S : \A x \in S : x <= m

\* an identity no statement of any Procedure has: a new object
FreshId(ps) == MaxOf(UNION { StmtIds(ps[i].ir) : i \in 1..Len(ps) }) + 1

IrOk(ir)  == [err |-> "", ir |-> ir]
IrRaise(e) == [err |-> e, ir |-> ProcNode(<<>>)]

\* LoopIR_scheduling.DoInsertPass: `s1 ; s2` --> `s1 ; pass ; s2`
DoInsertPass(ir, gap, id) ==
    LET xs == ListOf(ir, gap)
    IN  IrOk(UpdateAt(ir, gap.path, gap.field,
                      SubSeq(xs, 1, gap.lo) \o <<SId(PassS, id)>>
                        \o SubSeq(xs, gap.lo + 1, Len(xs))))

\* the buffers a statement reads and writes
RECURSIVE Reads(_)
Reads(n) ==
    (IF n.type \in {"Read", "Reduce"} THEN {n.name} ELSE {})
      \cup UNION { UNION { Reads(n.kids[k][2][j]) : j \in 1..Len(n.kids[k][2]) }
                   : k \in 1..Len(n.kids) }

RECURSIVE Writes(_)
Writes(n) ==
    (IF n.type \in {"Assign", "Reduce", "Alloc"} THEN {n.name} ELSE {})
      \cup UNION { UNION { Writes(n.kids[k][2][j]) : j \in 1..Len(n.kids[k][2]) }
                   : k \in 1..Len(n.kids) }

Commute(s1, s2) ==
    /\ Writes(s1) \cap (Reads(s2) \cup Writes(s2)) = {}
    /\ Writes(s2) \cap Reads(s1) = {}

\* LoopIR_scheduling.DoReorderStmt: `s1 ; s2` --> `s2 ; s1`
DoReorderStmt(ir, s1, s2) ==
    LET xs == ListOf(ir, s1)
    IN  IF ~Commute(CNode(ir, s1), CNode(ir, s2)) THEN IrRaise("SchedulingError")
        ELSE IrOk(UpdateAt(ir, s1.path, s1.field,
                           [xs EXCEPT ![s1.lo + 1] = xs[s2.lo + 1],
                                      ![s2.lo + 1] = xs[s1.lo + 1]]))

\* LoopIR_scheduling.DoDeletePass: every `pass` is removed
RECURSIVE DeletePassIn(_)
DeletePassList(xs) ==
    LET keep(st) == st.type # "Pass"
        ys == SelectSeq2(xs, keep)
    IN  [j \in 1..Len(ys) |-> DeletePassIn(ys[j])]

DeletePassIn(n) ==
    [n EXCEPT !.kids = [k \in 1..Len(n.kids) |->
        IF n.kids[k][1] \in {"body", "orelse"}
        THEN <<n.kids[k][1], DeletePassList(n.kids[k][2])>>
        ELSE n.kids[k]]]

DoDeletePass(ir) == IrOk(DeletePassIn(ir))

----------------------------------------------------------------------------
(* Procedures and the scheduling functions.  A Procedure is                 *)
(* [ir, eqv, from, by]: its LoopIR, the root of its provenance class, the   *)
(* Procedure it was derived from and the rewrite that derived it.           *)

\* a rewrite: the operation, the cursor it was applied at and the Procedure
\* whose tree it rewrote
Rewrite(op, loc, src) == [op |-> op, loc |-> loc, src |-> src]

Procedure(ir, eqv, from, by) == [ir |-> ir, eqv |-> eqv, from |-> from, by |-> by]

FnOk(ir, by) == [err |-> "", ir |-> ir, by |-> by]
FnRaise(e)   == [err |-> e, ir |-> ProcNode(<<>>), by |-> Rewrite("", NoCur, 0)]

Lift(r, by) == IF r.err # "" THEN FnRaise(r.err) ELSE FnOk(r.ir, by)

rename(ps, proc, name) ==
    FnOk([ps[proc.v].ir EXCEPT !.name = name.v[1]], Rewrite("rename", NoCur, proc.v))

\* a slip in insert_pass: the rewrite is applied but the old tree returned
insert_pass_dropped(ps, proc, gap_cursor) ==
    FnOk(ps[gap_cursor.v.proc].ir, Rewrite("insert_pass", gap_cursor.v.impl, gap_cursor.v.proc))

insert_pass(ps, proc, gap_cursor) ==
    Lift(DoInsertPass(ps[gap_cursor.v.proc].ir, gap_cursor.v.impl, FreshId(ps)),
         Rewrite("insert_pass", gap_cursor.v.impl, gap_cursor.v.proc))

delete_pass(ps, proc) ==
    Lift(DoDeletePass(ps[proc.v].ir), Rewrite("delete_pass", NoCur, proc.v))

\* a slip in reorder_stmts: the Procedure is built from the old tree
reorder_stmts_stale(ps, proc, block_cursor) ==
    LET c  == block_cursor.v.impl
        s1 == NodeC(c.path, c.field, c.lo)
        s2 == NodeC(c.path, c.field, c.lo + 1)
    IN  IF DoReorderStmt(ps[block_cursor.v.proc].ir, s1, s2).err # ""
        THEN FnRaise("SchedulingError")
        ELSE FnOk(ps[block_cursor.v.proc].ir,
                  Rewrite("reorder_stmts", c, block_cursor.v.proc))

reorder_stmts(ps, proc, block_cursor) ==
    LET c  == block_cursor.v.impl
        s1 == NodeC(c.path, c.field, c.lo)
        s2 == NodeC(c.path, c.field, c.lo + 1)
    IN  Lift(DoReorderStmt(ps[block_cursor.v.proc].ir, s1, s2), Rewrite("reorder_stmts", c, block_cursor.v.proc))

\* LoopIR_scheduling.DoSplit(proc_c, stmt, ...).result(): the rewrite walks
\* the tree of proc_c; a loop cursor into another tree is invalid there
DoSplitAt(ps, proc, loop_cursor, quot, hi, lo, tail, perfect) ==
    LET c  == loop_cursor.v.impl
        ir == ps[proc.v].ir
    IN  IF loop_cursor.v.proc # proc.v THEN FnRaise("InvalidCursorError")
        ELSE LET r == DoSplit(CNode(ir, c), quot, hi, lo, tail, perfect, 1)
             IN  IF r.err # "" THEN FnRaise(r.err)
                 ELSE FnOk(UpdateAt(ir, c.path, c.field, Splice(ListOf(ir, c), c.lo, r.stmts)),
                           Rewrite("divide_loop", c, proc.v))

\* divide_loop on the loop a cursor points to
divide_loop_at(ps, proc, loop_cursor, div_const, new_iters, tail, perfect) ==
    IF div_const.v = 1 THEN FnRaise("ValueError")
    ELSE DoSplitAt(ps, proc, loop_cursor, div_const.v,
                   new_iters.v[1].v[1], new_iters.v[2].v[1], tail.v[1], perfect.v)

ReadAt(buf, idx)        == Nd("Read", buf, << <<"idx", idx>> >>)
AssignAt(buf, idx, rhs) == Nd("Assign", buf, << <<"idx", idx>>, <<"rhs", <<rhs>> >> >>)
ReduceInto(buf, idx, rhs) == Nd("Reduce", buf, << <<"idx", idx>>, <<"rhs", <<rhs>> >> >>)
AllocS(buf)             == Nd("Alloc", buf, <<>>)

KName(j) == CASE j = 1 -> "k0" [] j = 2 -> "k1" [] OTHER -> "k2"

IsInterval(w) == w.t = "tuple"

\* e - lo, written e when lo is the literal 0
Minus(e, lo) == IF lo = ConstE(0) THEN e ELSE BinOpE("-", e, lo)
Plus(lo, e)  == IF lo = ConstE(0) THEN e ELSE BinOpE("+", lo, e)

\* the loops `for k_j in seq(0, hi_j - lo_j)` over the interval dimensions
\* d, d+1, ... of the window w around the statement inner
RECURSIVE CopyNest(_, _, _)
CopyNest(w, d, inner) ==
    IF d > Len(w) THEN inner
    ELSE IF IsInterval(w[d])
         THEN SeqLoop(KName(d), Minus(w[d].v[2].v, w[d].v[1].v), <<CopyNest(w, d + 1, inner)>>)
         ELSE CopyNest(w, d + 1, inner)

\* the accesses to buf, rewritten to the staging buffer
RECURSIVE Restage(_, _, _, _)
Restage(n, buf, new, w) ==
    LET sub == [n EXCEPT !.kids = [k \in 1..Len(n.kids) |->
                   <<n.kids[k][1],
                     [j \in 1..Len(n.kids[k][2]) |-> Restage(n.kids[k][2][j], buf, new, w)]>>]]
        iv(d) == d <= Len(w) /\ IsInterval(w[d])
        dims  == SelectSeq2([d \in 1..Len(Kids(sub, "idx")) |-> d], iv)
    IN  IF n.type \in {"Read", "Assign", "Reduce"} /\ n.name = buf
        THEN SetKids([sub EXCEPT !.name = new], "idx",
                     [d \in 1..Len(dims) |-> Minus(Kids(sub, "idx")[dims[d]], w[dims[d]].v[1].v)])
        ELSE sub

\* statements numbered id0, id0 + 1, ... in pre-order
RECURSIVE Renumber(_, _)
RenumberList(xs, id0) ==
    LET F[j \in 0..Len(xs)] ==
            IF j = 0 THEN [out |-> <<>>, next |-> id0]
            ELSE LET r == Renumber(xs[j], F[j - 1].next)
                 IN  [out |-> Append(F[j - 1].out, r.out), next |-> r.next]
    IN  F[Len(xs)]

Renumber(n, id0) ==
    LET b == RenumberList(Kids(n, "body"), id0 + 1)
    IN  [out |-> SId(IF HasField(n, "body") THEN SetKids(n, "body", b.out) ELSE n, id0),
         next |-> b.next]

\* LoopIR_scheduling.DoStageMem: allocate the staging buffer, load the
\* window before the block (when the block reads it), run the block on the
\* staging buffer, store the window back (when the block writes it); with
\* accumulation on a reduce-only block the load is a zero-fill and the store
\* a reduction.
DoStageMem(ir, buf, new, w, c, accum, id0) ==
    LET xs      == ListOf(ir, c)
        block   == SubSeq(xs, c.lo + 1, c.hi)
        iv(d)   == IsInterval(w[d])
        dims    == SelectSeq2([d \in 1..Len(w) |-> d], iv)
        newIdx  == [d \in 1..Len(dims) |-> ReadE(KName(dims[d]))]
        bufIdx  == [d \in 1..Len(w) |->
                       IF IsInterval(w[d]) THEN Plus(w[d].v[1].v, ReadE(KName(d)))
                       ELSE w[d].v]
        reads   == \E j \in 1..Len(block) :
                       \E q \in PathsFrom(block[j], <<>>) :
                           LET n == NodeAt(block[j], q)
                           IN  n.type \in {"Read", "Reduce"} /\ n.name = buf
        writes  == \E j \in 1..Len(block) : buf \in Writes(block[j])
        reduces == \A j \in 1..Len(block) :
                       \A q \in PathsFrom(block[j], <<>>) :
                           LET n == NodeAt(block[j], q)
                           IN  n.name = buf => n.type = "Reduce"
        zero    == accum /\ reduces
        load    == IF zero THEN <<CopyNest(w, 1, AssignAt(new, newIdx, ConstE(0)))>>
                   ELSE IF reads
                        THEN <<CopyNest(w, 1, AssignAt(new, newIdx, ReadAt(buf, bufIdx)))>>
                        ELSE <<>>
        store   == IF zero THEN <<CopyNest(w, 1, ReduceInto(buf, bufIdx, ReadAt(new, newIdx)))>>
                   ELSE IF writes
                        THEN <<CopyNest(w, 1, AssignAt(buf, bufIdx, ReadAt(new, newIdx)))>>
                        ELSE <<>>
        head    == RenumberList(<<AllocS(new)>> \o load, id0)
        tail    == RenumberList(store, head.next)
        staged  == [j \in 1..Len(block) |-> Restage(block[j], buf, new, w)]
    IN  IrOk(UpdateAt(ir, c.path, c.field,
                      SubSeq(xs, 1, c.lo) \o head.out \o staged \o tail.out
                        \o SubSeq(xs, c.hi + 1, Len(xs))))

\* LoopIR_scheduling.DoStageMem(proc_c, stmt_start, stmt_end, ...).result():
\* the block is looked up in the tree of proc_c
DoStageMemAt(ps, proc, block_cursor, buf_name, w_exprs, new_buf_name, accum) ==
    IF block_cursor.v.proc # proc.v THEN FnRaise("InvalidCursorError")
    ELSE Lift(DoStageMem(ps[proc.v].ir, buf_name, new_buf_name, w_exprs,
                         block_cursor.v.impl, accum, FreshId(ps)),
              Rewrite("stage_mem", block_cursor.v.impl, proc.v))

stage_mem(ps, proc, block_cursor, win_expr, new_buf_name, accum) ==
    DoStageMemAt(ps, proc, block_cursor, win_expr.v[1].v[1], win_expr.v[2].v,
                 new_buf_name.v[1], accum.v)

\* a Call statement; the callee is the Procedure ps[f] the script holds
CallS(name, f, args) == Nd("Call", name, << <<"args", args>>, <<"f", <<ConstE(f)>> >> >>)
Callee(stmt) == Kids(stmt, "f")[1].val

\* a procedure node with formal arguments
ProcWith(name, formals, body) ==
    Nd("proc", name, << <<"body", body>>, <<"args", formals>> >>)

\* LoopIR_scheduling.DoInline: the Call is replaced by the callee's body
\* with the formals replaced by the actuals (its statements are new ones)
DoInline(ps, ir, c, id0) ==
    LET stmt    == CNode(ir, c)
        f       == ps[Callee(stmt)].ir
        formals == Kids(f, "args")
        actuals == Kids(stmt, "args")
        Sub[k \in 0..Len(formals)] ==
            IF k = 0 THEN Kids(f, "body")
            ELSE SubstAll(Sub[k - 1], formals[k].name, actuals[k])
    IN  IrOk(UpdateAt(ir, c.path, c.field, Splice(ListOf(ir, c), c.lo,
                                  RenumberList(Sub[Len(formals)], id0).out)))

inline(ps, proc, call_cursor) ==
    Lift(DoInline(ps, ps[call_cursor.v.proc].ir, call_cursor.v.impl, FreshId(ps)),
         Rewrite("inline", call_cursor.v.impl, call_cursor.v.proc))

\* LoopIR_scheduling.DoCallSwap: `orig_proc(...)` -> `eqv_proc(...)`, for
\* a procedure of the callee's provenance class only
DoCallSwap(ps, ir, c, new) ==
    LET stmt == CNode(ir, c)
    IN  IF ps[new].eqv # ps[Callee(stmt)].eqv THEN IrRaise("SchedulingError")
        ELSE IrOk(UpdateAt(ir, c.path, c.field,
                           [ListOf(ir, c) EXCEPT ![c.lo + 1] =
                               [SetKids(stmt, "f", <<ConstE(new)>>)
                                  EXCEPT !.name = ps[new].ir.name]]))

\* a slip in call_eqv: the callee is swapped without looking at provenance
call_eqv_any(ps, proc, call_cursor, eqv_proc) ==
    LET c    == call_cursor.v.impl
        ir   == ps[proc.v].ir
        stmt == CNode(ir, c)
    IN  IF call_cursor.v.proc # proc.v THEN FnRaise("InvalidCursorError")
        ELSE FnOk(UpdateAt(ir, c.path, c.field,
                           [ListOf(ir, c) EXCEPT ![c.lo + 1] =
                               [SetKids(stmt, "f", <<ConstE(eqv_proc.v)>>)
                                  EXCEPT !.name = ps[eqv_proc.v].ir.name]]),
                  Rewrite("call_eqv", c, proc.v))

\* call_eqv: the rewrite walks the tree of proc_c = Cursor.create(proc)
call_eqv(ps, proc, call_cursor, eqv_proc) ==
    IF call_cursor.v.proc # proc.v THEN FnRaise("InvalidCursorError")
    ELSE Lift(DoCallSwap(ps, ps[proc.v].ir, call_cursor.v.impl, eqv_proc.v),
              Rewrite("call_eqv", call_cursor.v.impl, proc.v))

\* the effect analysis of a parallel loop: every buffer the body writes and
\* does not allocate is indexed by the iterator, in one and the same
\* dimension, wherever the body reads or writes it, so that no iteration
\* touches an element another iteration writes
CertifiedForAll(loop) ==
    LET nodes   == { NodeAt(loop, q) : q \in PathsFrom(loop, <<>>) } \ {loop}
        private == { n.name : n \in { m \in nodes : m.type = "Alloc" } }
        written == { n.name : n \in { m \in nodes : m.type \in {"Assign", "Reduce"} } }
                     \ private
        uses(b) == { n \in nodes : n.type \in {"Assign", "Reduce", "Read"} /\ n.name = b }
    IN  /\ \A n \in nodes : n.type \in {"Seq", "ForAll", "Alloc"} => n.name # loop.name
        /\ \A b \in written :
               \E d \in UNION { 1..Len(Kids(n, "idx")) : n \in uses(b) } :
                   \A n \in uses(b) :
                       d <= Len(Kids(n, "idx")) /\ Kids(n, "idx")[d] = ReadE(loop.name)

ForAllCertified(ir) ==
    \A q \in PathsFrom(ir, <<>>) :
        NodeAt(ir, q).type = "ForAll" => CertifiedForAll(NodeAt(ir, q))

\* a scheduling pass returns a tree with parallel loops only when the
\* analysis certifies each of them
ParChecked(r) ==
    IF r.err = "" /\ ~ForAllCertified(r.ir) THEN IrRaise("SchedulingError") ELSE r

\* one step of DoLiftAllocSimple: the Alloc at c moves out of the statement
\* that holds it, to just before that statement
LiftOnce(ir, c) ==
    LET xs   == ListOf(ir, c)
        rest == SubSeq(xs, 1, c.lo) \o SubSeq(xs, c.lo + 2, Len(xs))
        ir1  == UpdateAt(ir, c.path, c.field, IF rest = <<>> THEN <<PassS>> ELSE rest)
        up   == NodeOfPath(c.path)
        ys   == ListOf(ir1, up)
    IN  [ir |-> UpdateAt(ir1, up.path, up.field,
                         SubSeq(ys, 1, up.lo) \o <<xs[c.lo + 1]>>
                           \o SubSeq(ys, up.lo + 1, Len(ys))),
         c  |-> up]

\* `for i in _: buf : T ; ...` -> `buf : T ; for i in _: ...`, n_lifts times
LiftAllocs(ir, c, n_lifts) ==
    LET F[k \in 0..n_lifts] ==
            IF k = 0 THEN [ir |-> ir, c |-> c] ELSE LiftOnce(F[k - 1].ir, F[k - 1].c)
    IN  IF Len(c.path) < n_lifts THEN IrRaise("SchedulingError")
        ELSE IrOk(F[n_lifts].ir)

\* LoopIR_scheduling.DoLiftAllocSimple: the lifted tree, when its parallel
\* loops pass the effect analysis
DoLiftAllocSimple(ir, c, n_lifts) == ParChecked(LiftAllocs(ir, c, n_lifts))

\* a slip in lift_alloc: the tree is rewritten without the analysis of the
\* scheduling pass
lift_alloc_unchecked(ps, proc, alloc_cursor, n_lifts) ==
    Lift(LiftAllocs(ps[alloc_cursor.v.proc].ir, alloc_cursor.v.impl, n_lifts.v),
         Rewrite("lift_alloc", alloc_cursor.v.impl, alloc_cursor.v.proc))

lift_alloc(ps, proc, alloc_cursor, n_lifts) ==
    Lift(DoLiftAllocSimple(ps[alloc_cursor.v.proc].ir, alloc_cursor.v.impl, n_lifts.v),
         Rewrite("lift_alloc", alloc_cursor.v.impl, alloc_cursor.v.proc))

\* the runs of a loop body commute: every statement is a reduction (or
\* pass) whose index and right-hand side read no buffer the body writes
IterationsCommute(body) ==
    LET ws == UNION { Writes(body[j]) : j \in 1..Len(body) }
        operands(s) == UNION { UNION { Reads(s.kids[k][2][j]) : j \in 1..Len(s.kids[k][2]) }
                               : k \in 1..Len(s.kids) }
    IN  \A j \in 1..Len(body) :
            /\ body[j].type \in {"Pass", "Reduce"}
            /\ operands(body[j]) \cap ws = {}

\* LoopIR_scheduling.DoLiftScope on the loop at c, the only statement of
\* the loop around it: `for o in _: for i in _: s` -> `for i in _: for o
\* in _: s`, when the runs of s commute and the parallel loops of the new
\* tree pass the effect analysis
DoLiftScope(ir, c) ==
    LET up    == NodeOfPath(c.path)
        outer == CNode(ir, up)
        inner == CNode(ir, c)
        new   == SetKids(inner, "body", <<SetKids(outer, "body", Kids(inner, "body"))>>)
    IN  IF ~IsLoop(outer) \/ ~IsLoop(inner) THEN IrRaise("SchedulingError")
        ELSE IF ~IterationsCommute(Kids(inner, "body")) THEN IrRaise("SchedulingError")
             ELSE ParChecked(IrOk(UpdateAt(ir, up.path, up.field,
                                           [ListOf(ir, up) EXCEPT ![up.lo + 1] = new])))

reorder_loops(ps, proc, nested_loops) ==
    LET c    == nested_loops.v.impl
        ir   == ps[nested_loops.v.proc].ir
        body == Kids(CNode(ir, c), "body")
    IN  IF Len(body) # 1 \/ body[1].type # "Seq" THEN FnRaise("ValueError")
        ELSE Lift(DoLiftScope(ir, NodeC(PathOf(c), "body", 0)),
                  Rewrite("reorder_loops", c, nested_loops.v.proc))

\* self.func(*bound_args.args): the scheduling function of op on the
\* processed arguments
func(op, b, ps) ==
    CASE op = "rename"        -> rename(ps, b[1], b[2])
      [] op = "insert_pass"   -> insert_pass(ps, b[1], b[2])
      [] op = "delete_pass"   -> delete_pass(ps, b[1])
      [] op = "reorder_stmts" -> reorder_stmts(ps, b[1], b[2])
      [] op = "stage_mem"     -> stage_mem(ps, b[1], b[2], b[3], b[4], b[5])
      [] op = "divide_loop"   -> divide_loop_at(ps, b[1], b[2], b[3], b[4], b[5], b[6])
      [] op = "inline"        -> inline(ps, b[1], b[2])
      [] op = "call_eqv"      -> call_eqv(ps, b[1], b[2], b[3])
      [] op = "lift_alloc"    -> lift_alloc(ps, b[1], b[2], b[3])
      [] op = "reorder_loops" -> reorder_loops(ps, b[1], b[2])

\* self.sig.bind(*args) with the defaults patched in: too many or too few
\* arguments raise TypeError
Required(op) == Cardinality({ k \in 1..Len(Sig(op)) : Sig(op)[k].name \notin DOMAIN Defaults(op) })

bind(op, args) ==
    IF Len(args) > Len(Sig(op)) \/ Len(args) < Required(op)
    THEN [err |-> "TypeError", bargs |-> <<>>]
    ELSE [err |-> "",
          bargs |-> [k \in 1..Len(Sig(op)) |->
                        IF k <= Len(args) THEN args[k] ELSE Defaults(op)[Sig(op)[k].name]]]

NoIr == ProcNode(<<>>)

\* the outcome of a call that raised before the function was invoked
NotInvoked(e, by, msg, at, bargs) ==
    [err |-> e, by |-> by, msg |-> msg, at |-> at, invoked |-> FALSE,
     ir |-> NoIr, rw |-> Rewrite("", NoCur, 0), bargs |-> bargs]

\* the outcome of a call whose function returned or raised r
Invoked(r, bargs) ==
    [err |-> r.err, by |-> IF r.err # "" THEN "func" ELSE "", msg |-> <<>>, at |-> 0,
     invoked |-> TRUE, ir |-> r.ir, rw |-> r.by, bargs |-> bargs]

\* a slip in __call__: a processor that raises makes the call return the
\* procedure it was given instead of raising
AfterProcessors_quiet(op, pa, ps) ==
    IF pa.err # "" /\ pa.at = 1 THEN NotInvoked(pa.err, pa.by, pa.msg, pa.at, pa.bargs)
    ELSE IF pa.err # ""
         THEN [err |-> "", by |-> "", msg |-> <<>>, at |-> 0, invoked |-> FALSE,
               ir |-> ps[pa.bargs[1].v].ir, rw |-> Rewrite("", NoCur, pa.bargs[1].v),
               bargs |-> pa.bargs]
         ELSE Invoked(func(op, pa.bargs, ps), pa.bargs)

\* "invoke the scheduling function with the modified arguments", reached
\* only when no processor raised; pa is the outcome of the processors
AfterProcessors(op, pa, ps) ==
    IF pa.err # "" THEN NotInvoked(pa.err, pa.by, pa.msg, pa.at, pa.bargs)
    ELSE Invoked(func(op, pa.bargs, ps), pa.bargs)

\* b is the outcome of sig.bind
AfterBind(op, b, ps) ==
    IF b.err # "" THEN NotInvoked(b.err, "bind", <<>>, 0, <<>>)
    ELSE AfterProcessors(op, ProcessArgs(op, b.bargs, 1, ps), ps)

\* AtomicSchedulingOp.__call__: bind, process every argument, then invoke
\* the scheduling function.  The outcome tells who raised (bind, an argument
\* processor, find or parse_fragment called by one, or the function).
AtomicSchedulingOp(op, args, ps) == AfterBind(op, bind(op, args), ps)

----------------------------------------------------------------------------
(* Spec: a script holds Procedures and calls scheduling operations on them. *)
(* Cursor arguments are patterns or cursors obtained from any Procedure the *)
(* script holds (find, before(), body()).                                   *)

MaxCalls == 2

\* p: x[0] = 1 + 2 ; for i in seq(0, 4): y[i] = a ; x[i] += a
RootA ==
    ProcNode(<< SId(AssignS, 1),
                SId(SeqLoop("i", ConstE(4),
                            << SId(AssignAt("y", <<ReadE("i")>>, ReadE("a")), 3),
                               SId(ReduceInto("x", <<ReadE("i")>>, ReadE("a")), 4) >>), 2) >>)

\* p: pass ; for i in seq(0, 3): x[i] = a ; x[i] += a
RootB ==
    ProcNode(<< SId(PassS, 1),
                SId(SeqLoop("i", ConstE(3),
                            << SId(AssignAt("x", <<ReadE("i")>>, ReadE("a")), 3),
                               SId(ReduceInto("x", <<ReadE("i")>>, ReadE("a")), 4) >>), 2) >>)

\* g: pass
Other == [ProcNode(<< SId(PassS, 1) >>) EXCEPT !.name = "g"]

Init ==
    /\ NavIdle
    /\ LpIdle
    /\ RwIdle
    /\ \E root \in {RootA, RootB} :
          procs = << Procedure(root, 1, 0, Rewrite("", NoCur, 0)),
                     Procedure(Other, 2, 0, Rewrite("", NoCur, 0)) >>
    /\ call = NoCall

\* the cursors the script can hold
Held(ps) == 1..Len(ps)

StmtCursorsOf(ps, pi) ==
    { SCur(pi, new_Cursor(ps[pi].ir, NodeOfPath(q)).cur) : q \in StmtPaths(ps[pi].ir) }

GapCursorsOf(ps, pi) ==
    { SCur(pi, Cursor_before(ps[pi].ir, PubOf(c), 1).cur) : c \in StmtCursorsOf(ps, pi) }

BodyCursorsOf(ps, pi) ==
    { SCur(pi, block_accessor(ps[pi].ir, PubOf(c), "body"))
        : c \in { d \in StmtCursorsOf(ps, pi) : d.cls = "ForSeqCursor" } }

StmtCursorVals(ps) == { CurV(c) : c \in UNION { StmtCursorsOf(ps, pi) : pi \in Held(ps) } }
GapCursorVals(ps)  == { CurV(c) : c \in UNION { GapCursorsOf(ps, pi) : pi \in Held(ps) } }
BodyCursorVals(ps) == { CurV(c) : c \in UNION { BodyCursorsOf(ps, pi) : pi \in Held(ps) } }
LoopCursorVals(ps) == { c \in StmtCursorVals(ps) : c.v.cls = "ForSeqCursor" }

ProcVals(ps) == { ProcV(pi) : pi \in Held(ps) }

CallRecord(n, op, args, r) ==
    [seq |-> n, op |-> op, args |-> args, err |-> r.err, by |-> r.by, msg |-> r.msg,
     at |-> r.at, invoked |-> r.invoked, bargs |-> r.bargs]

\* the Procedure a call returns joins those the script holds; it is in the
\* provenance class of the proc argument
Returned(ps, r) ==
    IF r.err = ""
    THEN Append(ps, Procedure(r.ir, ps[r.bargs[1].v].eqv, r.bargs[1].v, r.rw))
    ELSE ps

Outcome(n, op, args, r) ==
    /\ call' = CallRecord(n, op, args, r)
    /\ procs' = Returned(procs, r)

\* an exception ends the script: calls are made while none has raised
Step(op, args) ==
    /\ call.seq < MaxCalls
    /\ call.err = ""
    /\ Outcome(call.seq + 1, op, args, AtomicSchedulingOp(op, args, procs))
    /\ UNCHANGED navVars
    /\ UNCHANGED lpVars
    /\ UNCHANGED rwVars

CallRename ==
    \E proc \in ProcVals(procs) \cup {IntV(7)},
       name \in {StrV(<<"r">>), StrV(<<"2x">>), IntV(3)} :
        Step("rename", <<proc, name>>)

CallInsertPass ==
    \E proc \in ProcVals(procs),
       gap \in GapCursorVals(procs) \cup {StrV(<<"pass">>)} :
        Step("insert_pass", <<proc, gap>>)

CallDeletePass ==
    \E proc \in ProcVals(procs), extra \in {<<>>, <<IntV(3)>>} :
        Step("delete_pass", <<proc>> \o extra)

CallReorderStmts ==
    \E proc \in ProcVals(procs),
       block \in BodyCursorVals(procs) \cup {StrV(<<"x", "+=", "_">>), IntV(3)} :
        Step("reorder_stmts", <<proc, block>>)

Windows ==
    { StrV(<<"x", "[", "0", ":", "4", "]">>), StrV(<<"x", "[", "i", "]">>), StrV(<<"x">>),
      StrV(<<"x", "[", "]">>), StrV(<<"2x", "[", "0", "]">>), StrV(<<"x", "[", "k", "]">>),
      IntV(3) }

\* stage_mem around the reduction or around the loop, with each window
\* string, and with accumulation for the first
StageArgs(ps) ==
    LET good(proc, win) == <<proc, StrV(<<"x", "+=", "_">>), win, StrV(<<"xs">>)>>
        slice == StrV(<<"x", "[", "0", ":", "4", "]">>)
    IN  UNION { { good(proc, win) : win \in Windows }
                \cup { good(proc, slice) \o <<BoolV(TRUE)>>,
                       [good(proc, slice) EXCEPT ![2] = StrV(<<"for", "i", "in", "_", ":", "_">>)],
                       [good(proc, slice) EXCEPT ![4] = StrV(<<"2x">>)] }
              : proc \in ProcVals(ps) }

CallStageMem == \E args \in StageArgs(procs) : Step("stage_mem", args)

\* the well-formed argument list of divide_loop and the lists that differ
\* from it in one argument
DivideArgs(ps) ==
    LET good(proc) == <<proc, StrV(<<"i">>), IntV(2),
                        ListV(<<StrV(<<"io">>), StrV(<<"ii">>)>>)>>
    IN  UNION { { good(proc),
                  good(proc) \o <<StrV(<<"cut">>)>>,
                  good(proc) \o <<StrV(<<"cut">>), BoolV(TRUE)>>,
                  good(proc) \o <<StrV(<<"tail">>)>>,
                  good(proc) \o <<StrV(<<"guard">>), IntV(1)>>,
                  [good(proc) EXCEPT ![2] = StrV(<<"for", "i", "in", "_", ":", "_">>)],
                  [good(proc) EXCEPT ![2] = StrV(<<"i", "#", "2">>)],
                  [good(proc) EXCEPT ![2] = StrV(<<"x", "+=", "_">>)],
                  [good(proc) EXCEPT ![3] = IntV(1)],
                  [good(proc) EXCEPT ![3] = IntV(0)],
                  [good(proc) EXCEPT ![4] = ListV(<<StrV(<<"io">>)>>)],
                  [good(proc) EXCEPT ![4] = PairV(<<StrV(<<"io">>), IntV(3)>>)],
                  [good(proc) EXCEPT ![4] = StrV(<<"io">>)] }
                \cup { [good(proc) EXCEPT ![2] = c] : c \in LoopCursorVals(ps) }
              : proc \in ProcVals(ps) }

CallDivideLoop == \E args \in DivideArgs(procs) : Step("divide_loop", args)

Next ==
    \/ CallRename
    \/ CallInsertPass
    \/ CallDeletePass
    \/ CallReorderStmts
    \/ CallStageMem
    \/ CallDivideLoop

Spec == Init /\ [][Next]_vars

----------------------------------------------------------------------------
(* Forwarding maps: where the statement at a path of the old tree is in the *)
(* new tree, or Bot when the rewrite removed it.                            *)

Bot == << <<"", 0 - 1>> >>

\* the path q runs through the child list (loc.path, loc.field)
Through(loc, q) ==
    /\ Len(q) > Len(loc.path)
    /\ SubSeq(q, 1, Len(loc.path)) = loc.path
    /\ q[Len(loc.path) + 1][1] = loc.field

Moved(loc, q, idx) == [q EXCEPT ![Len(loc.path) + 1] = <<loc.field, idx>>]

IdxIn(loc, q) == q[Len(loc.path) + 1][2]

\* insert_pass: the statements at and after the gap move one slot down
FwdInsertPass(gap, q) ==
    IF Through(gap, q) /\ IdxIn(gap, q) >= gap.lo
    THEN Moved(gap, q, IdxIn(gap, q) + 1)
    ELSE q

\* reorder_stmts: the two statements of the block trade places
FwdReorderStmts(c, q) ==
    IF Through(c, q) /\ IdxIn(c, q) = c.lo THEN Moved(c, q, c.lo + 1)
    ELSE IF Through(c, q) /\ IdxIn(c, q) = c.lo + 1 THEN Moved(c, q, c.lo)
         ELSE q

\* delete_pass: a `pass`, and whatever is below one, is gone; the other
\* statements move up past the `pass` statements before them
FwdDeletePass(ir, q) ==
    LET sibs(j)   == Kids(NodeAt(ir, SubSeq(q, 1, j - 1)), q[j][1])
        passes(j) == Cardinality({ h \in 1..q[j][2] : sibs(j)[h].type = "Pass" })
    IN  IF \E j \in 1..Len(q) : NodeAt(ir, SubSeq(q, 1, j)).type = "Pass" THEN Bot
        ELSE [j \in 1..Len(q) |-> <<q[j][1], q[j][2] - passes(j)>>]

FwdOps == {"rename", "insert_pass", "reorder_stmts", "delete_pass"}

\* the forwarding map of the rewrite rw of the tree ir, at the path q
fwd(rw, ir, q) ==
    CASE rw.op = "rename"        -> q
      [] rw.op = "insert_pass"   -> FwdInsertPass(rw.loc, q)
      [] rw.op = "reorder_stmts" -> FwdReorderStmts(rw.loc, q)
      [] rw.op = "delete_pass"   -> FwdDeletePass(ir, q)
      [] OTHER                   -> Bot

\* the map of a rewrite as a function on the statement paths of its source
FwdMap(rw, ir) == [q \in StmtPaths(ir) |-> fwd(rw, ir, q)]

\* fwd_{r2 o r1} = fwd_{r2} o fwd_{r1}, with Bot absorbing
Compose(g, f) == [q \in DOMAIN f |-> IF f[q] = Bot THEN Bot ELSE g[f[q]]]

\* a cursor path of the tree of Procedure a lifted to the tree of b through
\* the rewrites that led from the one to the other
RECURSIVE Forward(_, _, _, _)
Forward(ps, a, b, q) ==
    IF a = b THEN q
    ELSE LET mid == Forward(ps, a, ps[b].by.src, q)
         IN  IF mid = Bot THEN Bot ELSE fwd(ps[b].by, ps[ps[b].by.src].ir, mid)

\* Procedure b was produced from Procedure a by a chain of rewrites
RECURSIVE DerivedFrom(_, _, _)
DerivedFrom(ps, a, b) ==
    IF b = 0 THEN FALSE
    ELSE IF a = b THEN TRUE
         ELSE DerivedFrom(ps, a, ps[b].from)

----------------------------------------------------------------------------
(* Claims about scheduling calls, checked under Spec *)

\* every processor of op accepts the argument it was given (the bound
\* arguments raw), the earlier arguments being the processed ones
ProcessorsPass(op, args, bargs, ps) ==
    /\ bind(op, args).err = ""
    /\ Len(bargs) = Len(Sig(op))
    /\ \A k \in 1..Len(Sig(op)) :
          RunAP(Sig(op)[k].ap, setdata(op, k), bind(op, args).bargs[k], op, bargs, ps).err = ""

C1Call ==
    /\ Len(procs') >= Len(procs)
    /\ \A i \in 1..Len(procs) : procs'[i] = procs[i]
    /\ call'.err # "" => procs' = procs
    /\ call'.err = "" => Len(procs') = Len(procs) + 1 /\ call'.invoked
    /\ (call'.invoked \/ call'.err = "")
          => ProcessorsPass(call'.op, call'.args, call'.bargs, procs)
    /\ (call'.op = "divide_loop" /\ call'.invoked /\ call'.bargs[3].v = 1) => procs' = procs

\* C1: a scheduling call either raises or returns a new Procedure; the
\* Procedures that existed before the call are unchanged in both cases; a
\* call that raises returns nothing; and the function is invoked, and a
\* Procedure returned, only when every argument processor accepted its
\* argument.
C1_FrameEffect == [][call'.seq = call.seq + 1 => C1Call]_vars

C1_Witness ==
    /\ call.seq = 2 /\ call.invoked /\ call.err = ""
    /\ Len(procs) = 4
    /\ procs[4].ir # procs[procs[4].from].ir
    /\ procs[3].ir # procs[procs[3].from].ir

\* the cursor argument of the last call, once processed
CallHasCursor ==
    /\ call.seq > 0 /\ call.invoked
    /\ call.op \in {"insert_pass", "reorder_stmts", "stage_mem", "divide_loop"}
    /\ IsCursor(call.bargs[2])

CallCursor == call.bargs[2].v
CallProc   == call.bargs[1].v

\* the Procedure new keeps what the rewrites between p1 and p2 did: the name
\* of p2 and the statements p2 has and p1 has not
Retains(new, p1, p2) ==
    /\ new.ir.name = p2.ir.name
    /\ (StmtIds(p2.ir) \ StmtIds(p1.ir)) \subseteq StmtIds(new.ir)

\* C2: a call with Procedure p2 and a cursor created on an earlier version
\* p1 either raises an invalid-cursor error or returns a Procedure that
\* retains every rewrite made between p1 and p2; a cursor into a Procedure
\* unrelated to the proc argument is rejected with an invalid-cursor error.
C2_StaleCursor ==
    (CallHasCursor /\ CallCursor.proc # CallProc) =>
        IF procs[CallCursor.proc].eqv # procs[CallProc].eqv
        THEN call.err = "InvalidCursorError"
        ELSE DerivedFrom(procs, CallCursor.proc, CallProc) =>
                \/ call.err = "InvalidCursorError"
                \/ /\ call.err = ""
                   /\ Retains(procs[Len(procs)], procs[CallCursor.proc], procs[CallProc])

\* the chains p1 -> p2 -> p3 of two rewrites that have a forwarding map:
\* the tree of p2 was rewritten from that of p1, and that of p3 from p2's
Chains ==
    { ch \in (1..Len(procs)) \X (1..Len(procs)) \X (1..Len(procs)) :
        /\ procs[ch[3]].by.op \in FwdOps /\ procs[ch[2]].by.op \in FwdOps
        /\ procs[ch[3]].by.src = ch[2] /\ procs[ch[2]].by.src = ch[1] }

Fwd1(ch) == FwdMap(procs[ch[2]].by, procs[ch[1]].ir)
Fwd2(ch) == FwdMap(procs[ch[3]].by, procs[ch[2]].ir)

Prefix(op, k) ==
    <<"argument", ToNumeral(k - 1), ",", "'", Sig(op)[k].name, "'", "to", op, ":">>

\* C10: every failure an argument processor reports carries a message
\* "argument <i>, '<name>' to <op>: <reason>" with the zero-based position
\* and the name of the parameter and the name of the operation.
C10_ProcessorMessages ==
    (call.seq > 0 /\ call.by = "argproc") =>
        /\ Len(call.msg) = Len(Prefix(call.op, call.at)) + 1
        /\ SubSeq(call.msg, 1, Len(call.msg) - 1) = Prefix(call.op, call.at)

----------------------------------------------------------------------------
(* Buffer rewrites: rearrange_dim, divide_dim, mult_dim, bound_alloc and    *)
(* expand_dim.  A procedure is its body; `at` is the zero-based index of    *)
(* the Alloc statement the AllocCursor points to.                           *)

\* stmt._node.type.hi of the Alloc at index `at`
ExtentsAt(body, at) == Kids(body[at + 1], "hi")

\* the index list of an access to the buffer, rewritten by rw
NewIdx(idx, rw) ==
    CASE rw.op = "rearrange_dim" ->
            [j \in 1..Len(rw.xs) |-> idx[rw.xs[j] + 1]]
      [] rw.op = "divide_dim" ->
            SubSeq(idx, 1, rw.n)
              \o << BinOpE("/", idx[rw.n + 1], ConstE(rw.m)),
                    BinOpE("%", idx[rw.n + 1], ConstE(rw.m)) >>
              \o SubSeq(idx, rw.n + 2, Len(idx))
      [] rw.op = "mult_dim" ->
            LET merged == [idx EXCEPT ![rw.n + 1] =
                              BinOpE("+", BinOpE("*", ConstE(rw.c), idx[rw.n + 1]),
                                     idx[rw.m + 1])]
            IN  SubSeq(merged, 1, rw.m) \o SubSeq(merged, rw.m + 2, Len(merged))
      [] rw.op = "expand_dim" -> <<rw.e>> \o idx
      [] OTHER -> idx

\* every access to buf in the tree n gets its index list rewritten
RECURSIVE Reindex(_, _, _)
Reindex(n, buf, rw) ==
    LET below == [n EXCEPT !.kids =
                    [k \in 1..Len(n.kids) |->
                        <<n.kids[k][1],
                          [j \in 1..Len(n.kids[k][2]) |-> Reindex(n.kids[k][2][j], buf, rw)]>>]]
    IN  IF n.type \in {"Read", "Assign", "Reduce"} /\ n.name = buf
           /\ Kids(n, "idx") # <<>>
        THEN SetKids(below, "idx", NewIdx(Kids(below, "idx"), rw))
        ELSE below

\* the Alloc at `at` gets the extents hi and every access is rewritten by rw
Realloc(body, at, hi, rw) ==
    [j \in 1..Len(body) |->
        IF j = at + 1 THEN AllocT(body[j].name, hi)
        ELSE Reindex(body[j], body[at + 1].name, rw)]

RwParams(op, n, m, c, xs, e) == [op |-> op, n |-> n, m |-> m, c |-> c, xs |-> xs, e |-> e]

\* LoopIR_scheduling.DoRearrangeDim: `x : T[N,M,K]` -> `x : T[K,N,M]` for [2,0,1]
DoRearrangeDim(body, at, permute_vector) ==
    LET hi == ExtentsAt(body, at)
    IN  Done(Realloc(body, at, [j \in 1..Len(permute_vector) |-> hi[permute_vector[j] + 1]],
                     RwParams("rearrange_dim", 0, 0, 0, permute_vector, PassS)))

Range(xs) == { xs[j] : j \in 1..Len(xs) }

rearrange_dim(body, at, permute_vector) ==
    LET N == Len(ExtentsAt(body, at))
    IN  IF 0..(N - 1) # Range(permute_vector) THEN Fail("ValueError")
        ELSE DoRearrangeDim(body, at, permute_vector)

\* LoopIR_scheduling.DoDivideDim: `x : R[n, 12, m]` -> `x : R[n, 3, 4, m]`,
\* `x[i, j, k]` -> `x[i, j / 4, j % 4, k]`; the extent must be a literal
DoDivideDim(body, at, dim_idx, quotient) ==
    LET hi == ExtentsAt(body, at)
        Q  == hi[dim_idx + 1]
    IN  IF Q.type # "Const" THEN Fail("SchedulingError")
        ELSE Done(Realloc(body, at,
                          SubSeq(hi, 1, dim_idx)
                            \o << ConstE((Q.val + quotient - 1) \div quotient),
                                  ConstE(quotient) >>
                            \o SubSeq(hi, dim_idx + 2, Len(hi)),
                          RwParams("divide_dim", dim_idx, quotient, 0, <<>>, PassS)))

divide_dim(body, at, dim_idx, quotient) ==
    IF quotient = 1 THEN Fail("ValueError")
    ELSE IF ~(0 <= dim_idx /\ dim_idx < Len(ExtentsAt(body, at))) THEN Fail("ValueError")
         ELSE DoDivideDim(body, at, dim_idx, quotient)

\* LoopIR_scheduling.DoMultiplyDim: `x : R[n, m, 4]` -> `x : R[4*n, m]`,
\* `x[i, j, k]` -> `x[4*i + k, j]`; the extent of the low dimension must be
\* a literal
DoMultiplyDim(body, at, hi_dim_idx, lo_dim_idx) ==
    LET hi  == ExtentsAt(body, at)
        c   == hi[lo_dim_idx + 1]
        new == [hi EXCEPT ![hi_dim_idx + 1] = BinOpE("*", c, hi[hi_dim_idx + 1])]
    IN  IF c.type # "Const" THEN Fail("SchedulingError")
        ELSE Done(Realloc(body, at,
                          SubSeq(new, 1, lo_dim_idx) \o SubSeq(new, lo_dim_idx + 2, Len(new)),
                          RwParams("mult_dim", hi_dim_idx, lo_dim_idx, c.val, <<>>, PassS)))

\* a slip in mult_dim: the two dimension indices are handed over exchanged
mult_dim_exchanged(body, at, hi_dim_idx, lo_dim_idx) ==
    IF \E d \in {hi_dim_idx, lo_dim_idx} : ~(0 <= d /\ d < Len(ExtentsAt(body, at)))
    THEN Fail("ValueError")
    ELSE IF hi_dim_idx = lo_dim_idx THEN Fail("ValueError")
         ELSE DoMultiplyDim(body, at, lo_dim_idx, hi_dim_idx)

mult_dim(body, at, hi_dim_idx, lo_dim_idx) ==
    IF \E d \in {hi_dim_idx, lo_dim_idx} : ~(0 <= d /\ d < Len(ExtentsAt(body, at)))
    THEN Fail("ValueError")
    ELSE IF hi_dim_idx = lo_dim_idx THEN Fail("ValueError")
         ELSE DoMultiplyDim(body, at, hi_dim_idx, lo_dim_idx)


\* the extents of the buffer a key belongs to, when the body allocates it
AllocsOf(body, buf) == { j \in 1..Len(body) : body[j].type = "Alloc" /\ body[j].name = buf }

KeyInBounds(body, key, mem) ==
    \A j \in AllocsOf(body, key[1]) :
        LET hi == Kids(body[j], "hi")
        IN  /\ Len(key) = Len(hi) + 1
            /\ \A d \in 1..Len(hi) : 0 <= key[d + 1] /\ key[d + 1] < EvalM(hi[d], mem)

\* every access of a run from mem lies within the declared extents
InBounds(body, mem) ==
    LET log == ExecStmts(body, Store(mem)).log
    IN  \A k \in 1..Len(log) : KeyInBounds(body, log[k], mem)

\* CheckEffects: the bounds check of the effect analysis
CheckEffects(body) == \A mem \in SizeStores : InBounds(body, mem)

NoneE == Nd("None", "", <<>>)

\* LoopIR_scheduling.DoBoundAlloc: `x : T[N,M]` -> `x : T[N+1,M]` for ['N+1', None]
DoBoundAlloc(body, at, new_bounds) ==
    LET hi == ExtentsAt(body, at)
    IN  Done(Realloc(body, at,
                     [j \in 1..Len(hi) |-> IF new_bounds[j] = NoneE THEN hi[j] ELSE new_bounds[j]],
                     RwParams("bound_alloc", 0, 0, 0, <<>>, PassS)))

Checked(r, unsafe_disable_checks) ==
    IF ~unsafe_disable_checks /\ ~CheckEffects(r.stmts) THEN Fail("SchedulingError") ELSE r

\* a slip in bound_alloc: the effect check is skipped
bound_alloc_unchecked(body, at, new_bounds, unsafe_disable_checks) ==
    IF Len(ExtentsAt(body, at)) # Len(new_bounds) THEN Fail("ValueError")
    ELSE DoBoundAlloc(body, at, new_bounds)

bound_alloc(body, at, new_bounds, unsafe_disable_checks) ==
    IF Len(ExtentsAt(body, at)) # Len(new_bounds) THEN Fail("ValueError")
    ELSE Checked(DoBoundAlloc(body, at, new_bounds), unsafe_disable_checks)

\* the checks of DoExpandDim: the new extent is positive and the new
\* coordinate is within it at every use
ExpandOk(new, buf, alloc_dim) ==
    \A mem \in SizeStores :
        LET log == ExecStmts(new, Store(mem)).log
        IN  /\ EvalM(alloc_dim, mem) > 0
            /\ \A k \in 1..Len(log) :
                  log[k][1] = buf => 0 <= log[k][2] /\ log[k][2] < EvalM(alloc_dim, mem)

ExpandChecked(new, buf, alloc_dim) ==
    IF ExpandOk(new, buf, alloc_dim) THEN Done(new) ELSE Fail("SchedulingError")

\* LoopIR_scheduling.DoExpandDim: `x : T[...]` -> `x : T[alloc_dim, ...]`,
\* `x[...]` -> `x[indexing_expr, ...]`
DoExpandDim(body, at, alloc_dim, indexing_expr) ==
    ExpandChecked(Realloc(body, at, <<alloc_dim>> \o ExtentsAt(body, at),
                          RwParams("expand_dim", 0, 0, 0, <<>>, indexing_expr)),
                  body[at + 1].name, alloc_dim)

expand_dim(body, at, alloc_dim, indexing_expr, unsafe_disable_checks) ==
    DoExpandDim(body, at, alloc_dim, indexing_expr)

----------------------------------------------------------------------------
(* SpecRw and SpecSt: a script applies buffer rewrites (SpecRw) or         *)
(* statement rewrites (SpecSt) to a small procedure; a call that raises     *)
(* ends the script.                                                         *)

MaxRwOps == 2
MaxDims == 2

\* x : R[Q] ; for i in seq(0, Q): x[i] = x[i] + 1
Dim1(Q) == << AllocT("x", <<ConstE(Q)>>),
              SeqLoop("i", ConstE(Q),
                      <<AssignX("x", <<ReadE("i")>>,
                                BinOpE("+", ReadX("x", <<ReadE("i")>>), ConstE(1)))>>) >>

\* x : R[2, Q] ; for i in seq(0, 2): for j in seq(0, Q): x[i, j] += 1
Dim2(Q) == << AllocT("x", <<ConstE(2), ConstE(Q)>>),
              SeqLoop("i", ConstE(2),
                      <<SeqLoop("j", ConstE(Q),
                                <<ReduceX("x", <<ReadE("i"), ReadE("j")>>, ConstE(1))>>)>>) >>

\* x : R[e] ; for i in seq(0, n): x[i] = 0
Dim3(e) == << AllocT("x", <<e>>),
              SeqLoop("i", ReadE("n"), <<AssignX("x", <<ReadE("i")>>, ConstE(0))>>) >>

DimProcs ==
    { Dim1(Q) : Q \in 2..MaxN } \cup { Dim2(Q) : Q \in {4, 6} }
      \cup { Dim3(e) : e \in {ReadE("n"), ConstE(MaxSize + 1)} }

RwRecord(op, at, n, m, xs, flag, r) ==
    [op |-> op, at |-> at, n |-> n, m |-> m, xs |-> xs, flag |-> flag,
     err |-> r.err, out |-> r.stmts]

\* the call returns r: the script goes on with the new procedure
RwStep(op, at, n, m, xs, flag, r) ==
    /\ Len(rwOps) < MaxRwOps
    /\ \A k \in 1..Len(rwOps) : rwOps[k].err = ""
    /\ rwOps' = Append(rwOps, RwRecord(op, at, n, m, xs, flag, r))
    /\ rwOut' = IF r.err = "" THEN r.stmts ELSE rwOut
    /\ UNCHANGED rwIn
    /\ UNCHANGED navVars
    /\ UNCHANGED lpVars
    /\ UNCHANGED sessVars

\* the Alloc statements an AllocCursor can point to
AllocIdx(body) == { j \in 0..(Len(body) - 1) : body[j + 1].type = "Alloc" }

PermuteVectors == SeqsUpTo(0..MaxDims, MaxDims + 1)

RwRearrangeDim ==
    \E at \in AllocIdx(rwOut), pv \in PermuteVectors :
        RwStep("rearrange_dim", at, 0, 0, pv, FALSE, rearrange_dim(rwOut, at, pv))

RwDivideDim ==
    \E at \in AllocIdx(rwOut), dim_idx \in (0 - 1)..MaxDims, quotient \in 1..MaxQ :
        RwStep("divide_dim", at, dim_idx, quotient, <<>>, FALSE,
               divide_dim(rwOut, at, dim_idx, quotient))

RwMultDim ==
    \E at \in AllocIdx(rwOut), hi \in (0 - 1)..MaxDims, lo \in (0 - 1)..MaxDims :
        RwStep("mult_dim", at, hi, lo, <<>>, FALSE, mult_dim(rwOut, at, hi, lo))

SizeExprs == { ConstE(0), ConstE(2), ConstE(MaxSize + 1), ReadE("n"),
               BinOpE("-", ReadE("n"), ConstE(1)) }

RwBoundAlloc ==
    \E at \in AllocIdx(rwOut), unsafe \in BOOLEAN,
       nb \in SeqsUpTo({NoneE, ConstE(2), ConstE(MaxSize), ReadE("n")}, MaxDims) :
        RwStep("bound_alloc", at, 0, 0, nb, unsafe, bound_alloc(rwOut, at, nb, unsafe))

RwExpandDim ==
    \E at \in AllocIdx(rwOut), unsafe \in BOOLEAN,
       alloc_dim \in SizeExprs, indexing_expr \in SizeExprs :
        RwStep("expand_dim", at, 0, 0, <<alloc_dim, indexing_expr>>, unsafe,
               expand_dim(rwOut, at, alloc_dim, indexing_expr, unsafe))

----------------------------------------------------------------------------
(* Properties of the buffer rewrites.                                       *)

\* the procedure the k-th call of the script was applied to
RwBefore(k) == IF k = 1 THEN rwIn ELSE rwOps[k - 1].out

RwCalls(op) == { k \in 1..Len(rwOps) : rwOps[k].op = op }

IsPermutation(xs, N) == Len(xs) = N /\ Range(xs) = 0..(N - 1)

\* the buffer elements a run of body from mem accesses
AccessLog(body, mem) == ExecStmts(body, Store(mem)).log

\* key <<buf, i0, ..., i(N-1)>> with its coordinates permuted by xs
PermutedKey(key, xs) == <<key[1]>> \o [j \in 1..Len(xs) |-> key[xs[j] + 2]]

PermutedConsistently(old, new, at, xs) ==
    /\ Len(ExtentsAt(new, at)) = Len(xs)
    /\ \A j \in 1..Len(xs) : ExtentsAt(new, at)[j] = ExtentsAt(old, at)[xs[j] + 1]
    /\ \A mem \in SizeStores :
          LET a == AccessLog(old, mem)
              b == AccessLog(new, mem)
          IN  /\ Len(a) = Len(b)
              /\ \A k \in 1..Len(a) : b[k] = PermutedKey(a[k], xs)

\* C11: rearrange_dim raises ValueError for every permute_vector that is
\* not a permutation of 0..N-1 (repeated entries and wrong lengths
\* included), and accepts every permutation, permuting the extents of the
\* buffer and the coordinates of every access to it in the same way.
C11_RearrangeDimPermutation ==
    \A k \in RwCalls("rearrange_dim") :
        LET N == Len(ExtentsAt(RwBefore(k), rwOps[k].at))
        IN  IF IsPermutation(rwOps[k].xs, N)
            THEN /\ rwOps[k].err = ""
                 /\ PermutedConsistently(RwBefore(k), rwOps[k].out, rwOps[k].at, rwOps[k].xs)
            ELSE rwOps[k].err = "ValueError"

\* the extents of the Alloc at `at`, evaluated in mem
ExtentVals(body, at, mem) ==
    [d \in 1..Len(ExtentsAt(body, at)) |-> EvalM(ExtentsAt(body, at)[d], mem)]

\* call k is mult_dim(buf, i, i+1) right after a successful
\* divide_dim(buf, i, q) of a literal extent Q that q divides
DivideThenMult(k) ==
    /\ k >= 2
    /\ rwOps[k].op = "mult_dim"
    /\ rwOps[k - 1].op = "divide_dim"
    /\ rwOps[k - 1].err = ""
    /\ rwOps[k].at = rwOps[k - 1].at
    /\ rwOps[k].n = rwOps[k - 1].n
    /\ rwOps[k].m = rwOps[k - 1].n + 1
    /\ LET Q == ExtentsAt(RwBefore(k - 1), rwOps[k - 1].at)[rwOps[k - 1].n + 1]
       IN  Q.type = "Const" /\ Q.val % rwOps[k - 1].m = 0

\* C12: divide_dim(buf, i, q) followed by mult_dim(buf, i, i+1), for a
\* literal extent Q and q >= 2 dividing Q, restores the extent Q and maps
\* every access e back to e; in between, the accesses (e / q, e % q) lie
\* within the extents (Q / q, q) and distinct e give distinct pairs.
C12_DivideMultDimRoundTrip ==
    \A k \in 1..Len(rwOps) :
        DivideThenMult(k) =>
            LET old == RwBefore(k - 1)
                mid == rwOps[k - 1].out
                new == rwOps[k].out
                at  == rwOps[k].at
                i   == rwOps[k].n
                q   == rwOps[k - 1].m
            IN  /\ rwOps[k].err = ""
                /\ ExtentsAt(mid, at)[i + 1] = ConstE(ExtentsAt(old, at)[i + 1].val \div q)
                /\ ExtentsAt(mid, at)[i + 2] = ConstE(q)
                /\ \A mem \in SizeStores :
                      LET a == AccessLog(old, mem)
                          b == AccessLog(mid, mem)
                      IN  /\ ExtentVals(new, at, mem) = ExtentVals(old, at, mem)
                          /\ AccessLog(new, mem) = a
                          /\ InBounds(mid, mem)
                          /\ Len(b) = Len(a)
                          /\ \A u, v \in 1..Len(a) : a[u] # a[v] => b[u] # b[v]

C12_Witness ==
    \E k \in 1..Len(rwOps) :
        /\ DivideThenMult(k)
        /\ rwOps[k].err = ""
        /\ ExtentsAt(RwBefore(k - 1), rwOps[k].at)[rwOps[k].n + 1].val > rwOps[k - 1].m
        /\ Len(AccessLog(rwOps[k - 1].out, [j \in {<<"n">>} |-> 1])) > 2

\* every access of a run of body from mem to the buffer allocated at `at`
\* has as many coordinates as the buffer has extents, each within its extent
AccessesWithin(body, at, mem) ==
    LET hi  == ExtentVals(body, at, mem)
        log == AccessLog(body, mem)
    IN  \A k \in 1..Len(log) :
            log[k][1] = body[at + 1].name =>
                /\ Len(log[k]) = Len(hi) + 1
                /\ \A d \in 1..Len(hi) : 0 <= log[k][d + 1] /\ log[k][d + 1] < hi[d]

\* the new leading extent is positive and the new leading coordinate of
\* every access is within it
NewDimWithin(body, at, mem) ==
    LET size == ExtentVals(body, at, mem)[1]
        log  == AccessLog(body, mem)
    IN  /\ size > 0
        /\ \A k \in 1..Len(log) :
              log[k][1] = body[at + 1].name => 0 <= log[k][2] /\ log[k][2] < size

\* C13: with unsafe_disable_checks = False, a procedure returned by
\* bound_alloc has every access to the buffer within the declared extents,
\* and one returned by expand_dim has a positive new extent and the new
\* index within it at each use; a call that raises returns no procedure.
C13_CheckedBufferRewrites ==
    \A k \in RwCalls("bound_alloc") \cup RwCalls("expand_dim") :
        ~rwOps[k].flag =>
            IF rwOps[k].err = ""
            THEN \A mem \in SizeStores :
                    IF rwOps[k].op = "bound_alloc"
                    THEN AccessesWithin(rwOps[k].out, rwOps[k].at, mem)
                    ELSE NewDimWithin(rwOps[k].out, rwOps[k].at, mem)
            ELSE rwOps[k].out = <<>> /\ rwOut = RwBefore(k)

C13_Witness ==
    /\ Len(rwOps) = 2
    /\ rwOps[1].op = "bound_alloc" /\ ~rwOps[1].flag /\ rwOps[1].err = ""
    /\ ExtentsAt(rwOps[1].out, rwOps[1].at) # ExtentsAt(rwIn, rwOps[1].at)
    /\ rwOps[2].op = "expand_dim" /\ ~rwOps[2].flag /\ rwOps[2].err = ""
    /\ rwOps[2].xs[2] = BinOpE("-", ReadE("n"), ConstE(1))

----------------------------------------------------------------------------
(* Statement rewrites: simplify, fission, fuse, merge_writes, unroll_loop,  *)
(* remove_loop, specialize and add_loop.                                    *)

IsConst(e) == e.type = "Const"
BoolE(b) == IF b THEN TrueE ELSE FalseE

\* a binary operation on two literals, as a literal
FoldConst(op, a, b) ==
    CASE op = "+"   -> ConstE(a + b)
      [] op = "-"   -> ConstE(a - b)
      [] op = "*"   -> ConstE(a * b)
      [] op = "/"   -> ConstE(a \div b)
      [] op = "%"   -> ConstE(a % b)
      [] op = "<"   -> BoolE(a < b)
      [] op = ">"   -> BoolE(a > b)
      [] op = "<="  -> BoolE(a <= b)
      [] op = ">="  -> BoolE(a >= b)
      [] op = "=="  -> BoolE(a = b)
      [] op = "and" -> BoolE(a = 1 /\ b = 1)
      [] op = "or"  -> BoolE(a = 1 \/ b = 1)

Foldable(op, a, b) == IsConst(a) /\ IsConst(b) /\ (op \in {"/", "%"} => b.val > 0)

\* constant folding of an expression, operands first
RECURSIVE FoldE(_)
FoldAll(es) == [j \in 1..Len(es) |-> FoldE(es[j])]
FoldBinOp(op, a, b) ==
    IF Foldable(op, a, b) THEN FoldConst(op, a.val, b.val) ELSE BinOpE(op, a, b)
FoldE(e) ==
    CASE e.type = "BinOp" -> FoldBinOp(e.name, FoldE(Lhs(e)), FoldE(Rhs(e)))
      [] e.type = "Read"  -> SetKids(e, "idx", FoldAll(Kids(e, "idx")))
      [] OTHER            -> e

\* every occurrence of the expression c in the tree n replaced by v
RECURSIVE Assume(_, _, _)
Assume(n, c, v) ==
    IF n = c THEN v
    ELSE [n EXCEPT !.kids =
            [k \in 1..Len(n.kids) |->
                <<n.kids[k][1],
                  [j \in 1..Len(n.kids[k][2]) |-> Assume(n.kids[k][2][j], c, v)]>>]]

AssumeAll(ss, c, v) == [j \in 1..Len(ss) |-> Assume(ss[j], c, v)]

OrPass(ss) == IF ss = <<>> THEN <<PassS>> ELSE ss

\* one pass of the simplifier over a statement list: literals are folded,
\* `if True / False` gives way to the branch taken, zero-trip loops are
\* dropped, and a condition is taken as known inside its own branches
RECURSIVE SimplifyStmts(_)
SimplifyIf(c, body, orelse) ==
    IF c = TrueE THEN SimplifyStmts(body)
    ELSE IF c = FalseE THEN SimplifyStmts(orelse)
    ELSE << IfElse(c, OrPass(SimplifyStmts(AssumeAll(body, c, TrueE))),
                   SimplifyStmts(AssumeAll(orelse, c, FalseE))) >>

SimplifyLoop(s, hi) ==
    IF hi = ConstE(0) THEN <<>>
    ELSE << SetKids(SetKids(s, "hi", <<hi>>), "body", OrPass(SimplifyStmts(Kids(s, "body")))) >>

SimplifyStmt(s) ==
    CASE s.type \in {"Assign", "Reduce"} ->
            << SetKids(SetKids(s, "idx", FoldAll(Kids(s, "idx"))),
                       "rhs", FoldAll(Kids(s, "rhs"))) >>
      [] s.type = "If" ->
            SimplifyIf(FoldE(Kids(s, "cond")[1]), Kids(s, "body"), Kids(s, "orelse"))
      [] s.type \in {"Seq", "ForAll"} -> SimplifyLoop(s, FoldE(Kids(s, "hi")[1]))
      [] s.type = "Alloc" -> << SetKids(s, "hi", FoldAll(Kids(s, "hi"))) >>
      [] OTHER -> <<s>>

SimplifyStmts(ss) ==
    IF ss = <<>> THEN <<>> ELSE SimplifyStmt(ss[1]) \o SimplifyStmts(Tail(ss))

SimplifyPass(body) == OrPass(SimplifyStmts(body))

\* passes are repeated until one changes nothing
RECURSIVE SimplifyFrom(_, _)
SimplifyFrom(body, next) ==
    IF next = body THEN body ELSE SimplifyFrom(next, SimplifyPass(next))

\* LoopIR_scheduling.DoSimplify
DoSimplify(body) == Done(SimplifyFrom(body, SimplifyPass(body)))

\* a slip in simplify: a single pass instead of the fixpoint
simplify_one_pass(body) == Done(SimplifyPass(body))

simplify(body) == DoSimplify(body)

\* if n < 1 + 1: (if n < 1 + 1: x = 2 * 3 else: x = 0) else: y = 1
Simp1 == << IfElse(BinOpE("<", ReadE("n"), BinOpE("+", ConstE(1), ConstE(1))),
                   << IfElse(BinOpE("<", ReadE("n"), BinOpE("+", ConstE(1), ConstE(1))),
                             <<AssignX("x", <<>>, BinOpE("*", ConstE(2), ConstE(3)))>>,
                             <<AssignX("x", <<>>, ConstE(0))>>) >>,
                   <<AssignX("y", <<>>, ConstE(1))>>) >>

\* for i in seq(0, 2 - 2): x = 1 ; for j in seq(0, n): if 1 < 0: y = 1
Simp2 == << SeqLoop("i", BinOpE("-", ConstE(2), ConstE(2)), <<AssignX("x", <<>>, ConstE(1))>>),
            SeqLoop("j", ReadE("n"),
                    <<IfS(BinOpE("<", ConstE(1), ConstE(0)), <<AssignX("y", <<>>, ConstE(1))>>)>>) >>

\* x : R[2 + 1] ; x[1 + 1] = n * (2 - 1) ; if True: y = 0 else: y = x[4 / 2]
Simp3 == << AllocT("x", <<BinOpE("+", ConstE(2), ConstE(1))>>),
            AssignX("x", <<BinOpE("+", ConstE(1), ConstE(1))>>,
                    BinOpE("*", ReadE("n"), BinOpE("-", ConstE(2), ConstE(1)))),
            IfElse(TrueE, <<AssignX("y", <<>>, ConstE(0))>>,
                   <<AssignX("y", <<>>, ReadX("x", <<BinOpE("/", ConstE(4), ConstE(2))>>))>>) >>

SimpProcs == {Simp1, Simp2, Simp3}

RwSimplify == RwStep("simplify", 0, 0, 0, <<>>, FALSE, simplify(rwOut))

\* the nodes of a tree
RECURSIVE SubNodes(_)
SubNodes(n) ==
    {n} \cup UNION { UNION { SubNodes(n.kids[k][2][j]) : j \in 1..Len(n.kids[k][2]) } :
                       k \in 1..Len(n.kids) }
NodesOf(body) == UNION { SubNodes(body[j]) : j \in 1..Len(body) }

\* nothing is left for the simplifier to do
Simplified(body) ==
    \A n \in NodesOf(body) :
        /\ n.type = "BinOp" =>
              ~(Lhs(n).type = "Const" /\ Rhs(n).type = "Const"
                  /\ ~(n.name \in {"/", "%"} /\ Rhs(n).val = 0))
        /\ n.type = "If" => Kids(n, "cond")[1] \notin {TrueE, FalseE}
        /\ n.type \in {"Seq", "ForAll"} => Kids(n, "hi")[1] # ConstE(0)

\* C14: simplify is idempotent: simplifying the output of simplify gives
\* the same IR, and the output holds no foldable constant arithmetic, no
\* `if True / False` and no zero-trip loop.
C14_SimplifyIdempotent ==
    \A k \in RwCalls("simplify") :
        /\ rwOps[k].err = ""
        /\ simplify(rwOps[k].out) = Done(rwOps[k].out)
        /\ Simplified(rwOps[k].out)
        /\ (k < Len(rwOps) /\ rwOps[k + 1].op = "simplify") => rwOps[k + 1].out = rwOps[k].out

C14_Witness ==
    \E k \in RwCalls("simplify") :
        /\ k < Len(rwOps)
        /\ rwOps[k + 1].op = "simplify"
        /\ rwOps[k].out # RwBefore(k)
        /\ rwOps[k].out # SimplifyPass(RwBefore(k))


\* the statement list with the statements lo+1..hi replaced by ss
Replaced(body, lo, hi, ss) == SubSeq(body, 1, lo) \o ss \o SubSeq(body, hi + 1, Len(body))

\* Sym.copy(): a new symbol for a copied loop
CopyOf(it) == it \o "_1"

\* the two statements a loop or guard around pre ; post is fissioned into
FissionLoop(s, pre, post) ==
    << SetKids(s, "body", pre),
       [SetKids(s, "body", SubstAll(post, s.name, ReadE(CopyOf(s.name))))
          EXCEPT !.name = CopyOf(s.name)] >>

FissionIf(s, pre, post) == << SetKids(s, "body", pre), SetKids(s, "body", post) >>

\* LoopIR_scheduling.DoFissionAfterSimple: the gap is at position g of the
\* body of the top-level statement at index `at`
DoFissionAfterSimple(body, at, g, n_lifts) ==
    LET s    == body[at + 1]
        pre  == SubSeq(Kids(s, "body"), 1, g)
        post == SubSeq(Kids(s, "body"), g + 1, Len(Kids(s, "body")))
    IN  IF n_lifts > 1 THEN Fail("SchedulingError")
        ELSE IF IsLoop(s)
             THEN Preserving(body, Replaced(body, at, at + 1, FissionLoop(s, pre, post)))
             ELSE IF Kids(s, "orelse") # <<>> THEN Fail("SchedulingError")
                  ELSE Preserving(body, Replaced(body, at, at + 1, FissionIf(s, pre, post)))

\* gap_cursor.before() / gap_cursor.after() raise at the ends of the body
fission(body, at, g, n_lifts) ==
    IF g = 0 \/ g = Len(Kids(body[at + 1], "body")) THEN Fail("InvalidCursorError")
    ELSE DoFissionAfterSimple(body, at, g, n_lifts)

\* LoopIR_scheduling.DoFuseLoop: `for i in e: s1 ; for j in e: s2` ->
\* `for i in e: s1 ; s2[j -> i]`
DoFuseLoop(body, s1, s2) ==
    LET f == body[s1 + 1]
        g == body[s2 + 1]
    IN  IF s2 # s1 + 1 \/ Kids(f, "hi") # Kids(g, "hi") THEN Fail("SchedulingError")
        ELSE Preserving(body,
                 Replaced(body, s1, s2 + 1,
                          << SetKids(f, "body",
                                     Kids(f, "body")
                                       \o SubstAll(Kids(g, "body"), g.name, ReadE(f.name))) >>))

\* LoopIR_scheduling.DoFuseIf: `if c: s1 ; if c: s2` -> `if c: s1 ; s2`
DoFuseIf(body, s1, s2) ==
    LET f == body[s1 + 1]
        g == body[s2 + 1]
    IN  IF s2 # s1 + 1 \/ Kids(f, "cond") # Kids(g, "cond") THEN Fail("SchedulingError")
        ELSE Preserving(body,
                 Replaced(body, s1, s2 + 1,
                          << SetKids(SetKids(f, "body", Kids(f, "body") \o Kids(g, "body")),
                                     "orelse", Kids(f, "orelse") \o Kids(g, "orelse")) >>))

\* a slip in fuse: the two cursors are handed over exchanged
fuse_exchanged(body, stmt1, stmt2) ==
    IF (body[stmt1 + 1].type = "If") # (body[stmt2 + 1].type = "If") THEN Fail("ValueError")
    ELSE IF body[stmt1 + 1].type = "If" THEN DoFuseIf(body, stmt2, stmt1)
         ELSE DoFuseLoop(body, stmt2, stmt1)

fuse(body, stmt1, stmt2) ==
    IF (body[stmt1 + 1].type = "If") # (body[stmt2 + 1].type = "If") THEN Fail("ValueError")
    ELSE IF body[stmt1 + 1].type = "If" THEN DoFuseIf(body, stmt1, stmt2)
         ELSE DoFuseLoop(body, stmt1, stmt2)

\* for i in seq(0, n): x[i] = 0 ; y[i] = x[i] + 1 ; x[i] = y[i]
Fis1 == << SeqLoop("i", ReadE("n"),
                   << AssignX("x", <<ReadE("i")>>, ConstE(0)),
                      AssignX("y", <<ReadE("i")>>,
                              BinOpE("+", ReadX("x", <<ReadE("i")>>), ConstE(1))),
                      AssignX("x", <<ReadE("i")>>, ReadX("y", <<ReadE("i")>>)) >>) >>

\* for i in seq(0, n): t = i ; y[i] = t
Fis2 == << SeqLoop("i", ReadE("n"),
                   << AssignX("t", <<>>, ReadE("i")),
                      AssignX("y", <<ReadE("i")>>, ReadE("t")) >>) >>

\* if n < 2: x = 1 ; y = 2
\* for i in seq(0, n): x[i] = 0
\* for j in seq(0, 2): y[j] = 1
Fis3 == << IfS(BinOpE("<", ReadE("n"), ConstE(2)),
               << AssignX("x", <<>>, ConstE(1)), AssignX("y", <<>>, ConstE(2)) >>),
           SeqLoop("i", ReadE("n"), <<AssignX("x", <<ReadE("i")>>, ConstE(0))>>),
           SeqLoop("j", ConstE(2), <<AssignX("y", <<ReadE("j")>>, ConstE(1))>>) >>

FisProcs == {Fis1, Fis2, Fis3}

\* the statements a ForSeqCursor or IfCursor can point to
ScopeIdx(body) == { j \in 0..(Len(body) - 1) : body[j + 1].type \in {"Seq", "ForAll", "If"} }
LoopIdx(body)  == { j \in 0..(Len(body) - 1) : IsLoop(body[j + 1]) }

RwFission ==
    \E at \in ScopeIdx(rwOut), n_lifts \in 1..2 :
        \E g \in 0..Len(Kids(rwOut[at + 1], "body")) :
            RwStep("fission", at, g, n_lifts, <<>>, FALSE, fission(rwOut, at, g, n_lifts))

RwFuse ==
    \E stmt1 \in ScopeIdx(rwOut), stmt2 \in ScopeIdx(rwOut) :
        RwStep("fuse", 0, stmt1, stmt2, <<>>, FALSE, fuse(rwOut, stmt1, stmt2))

\* call k fuses the two loops that the fission of call k-1 produced
FissionThenFuse(k) ==
    /\ k >= 2
    /\ rwOps[k - 1].op = "fission"
    /\ rwOps[k - 1].err = ""
    /\ IsLoop(RwBefore(k - 1)[rwOps[k - 1].at + 1])
    /\ rwOps[k].op = "fuse"
    /\ rwOps[k].n = rwOps[k - 1].at
    /\ rwOps[k].m = rwOps[k - 1].at + 1

\* C15: fission at a gap inside a loop body followed by fuse of the two
\* resulting adjacent loops gives back the original IR: the same loop and
\* bound, the statements in their order, the second iterator renamed back.
C15_FissionFuseRoundTrip ==
    \A k \in 1..Len(rwOps) :
        FissionThenFuse(k) =>
            /\ rwOps[k].err = ""
            /\ rwOps[k].out = RwBefore(k - 1)
            /\ rwOps[k - 1].out # RwBefore(k - 1)

C15_Witness ==
    \E k \in 1..Len(rwOps) :
        /\ FissionThenFuse(k)
        /\ rwOps[k].err = ""
        /\ Len(rwOps[k - 1].out) = Len(RwBefore(k - 1)) + 1
        /\ rwOps[k - 1].out[rwOps[k].m + 1].name # rwOps[k - 1].out[rwOps[k].n + 1].name

IsWrite(s) == s.type \in {"Assign", "Reduce"}

\* the names of the buffers and scalars an expression reads
ReadNames(e) == { n.name : n \in { m \in SubNodes(e) : m.type = "Read" } }

\* the statement the two writes s1 ; s2 to one location merge into
MergedWrite(s1, s2) ==
    IF s2.type = "Assign" THEN s2
    ELSE SetKids(s1, "rhs", <<BinOpE("+", Rhs(s1), Rhs(s2))>>)

\* LoopIR_scheduling.DoMergeWrites: the two statements at lo and lo + 1
\* must write the same element and the second right-hand side must not
\* read the buffer written
DoMergeWrites(body, lo) ==
    LET s1 == body[lo + 1]
        s2 == body[lo + 2]
    IN  IF Kids(s1, "idx") # Kids(s2, "idx") THEN Fail("SchedulingError")
        ELSE IF s1.name \in ReadNames(Rhs(s2)) THEN Fail("SchedulingError")
             ELSE Done(Replaced(body, lo, lo + 2, <<MergedWrite(s1, s2)>>))

\* a slip in merge_writes: the names of the two left-hand sides are not compared
merge_writes_any_name(body, lo) ==
    IF ~IsWrite(body[lo + 1]) \/ ~IsWrite(body[lo + 2]) THEN Fail("ValueError")
    ELSE DoMergeWrites(body, lo)

\* every buffer of the model has the numeric type R: only the names differ
merge_writes(body, lo) ==
    IF ~IsWrite(body[lo + 1]) \/ ~IsWrite(body[lo + 2]) THEN Fail("ValueError")
    ELSE IF body[lo + 1].name # body[lo + 2].name THEN Fail("ValueError")
         ELSE DoMergeWrites(body, lo)

\* the two writes `a[0] (+)= x ; t (+)= y`, the second one to a[0], a[1] or
\* b[0], with y or a[0] + y on the right
MergeSecond ==
    { <<"a", ConstE(0), ReadE("y")>>,
      <<"a", ConstE(0), BinOpE("+", ReadX("a", <<ConstE(0)>>), ReadE("y"))>>,
      <<"a", ConstE(1), ReadE("y")>>,
      <<"b", ConstE(0), ReadE("y")>> }

MergeProcs ==
    { << Nd(t1, "a", << <<"idx", <<ConstE(0)>> >>, <<"rhs", <<ReadE("x")>> >> >>),
         Nd(t2, w[1], << <<"idx", <<w[2]>> >>, <<"rhs", <<w[3]>> >> >>) >> :
        t1 \in {"Assign", "Reduce"}, t2 \in {"Assign", "Reduce"}, w \in MergeSecond }
      \cup { << AssignX("b", <<ConstE(1)>>, ReadE("y")),
                ReduceX("a", <<ConstE(0)>>, ReadE("x")),
                ReduceX("a", <<ConstE(0)>>, ReadE("y")),
                AssignX("b", <<ConstE(0)>>, ReadX("a", <<ConstE(0)>>)) >> }

\* the initial values of a[0], a[1], x and y
MaxVal == 1
ValStores ==
    { [k \in {<<"a", 0>>, <<"x">>, <<"y">>, <<"n">>} |->
          CASE k = <<"a", 0>> -> a [] k = <<"x">> -> x [] k = <<"y">> -> y [] OTHER -> n] :
        a \in 0..MaxVal, x \in 0..MaxVal, y \in 0..MaxVal, n \in 1..2 }

\* the BlockCursors of two statements of the top-level body
PairIdx(body) == 0..(Len(body) - 2)

RwMergeWrites ==
    \E lo \in PairIdx(rwOut) :
        RwStep("merge_writes", lo, 0, 0, <<>>, FALSE, merge_writes(rwOut, lo))

\* the runs of two bodies from mem end in the same store
SameRun(old, new, mem) ==
    SameMem(ExecStmts(old, Store(mem)).mem, ExecStmts(new, Store(mem)).mem)

\* the four cases, written out
FourCases(s1, s2, s) ==
    /\ s.name = s1.name
    /\ Kids(s, "idx") = Kids(s1, "idx")
    /\ (s1.type = "Assign" /\ s2.type = "Assign") => (s.type = "Assign" /\ Rhs(s) = Rhs(s2))
    /\ (s1.type = "Reduce" /\ s2.type = "Assign") => (s.type = "Assign" /\ Rhs(s) = Rhs(s2))
    /\ (s1.type = "Assign" /\ s2.type = "Reduce") =>
          (s.type = "Assign" /\ Rhs(s) = BinOpE("+", Rhs(s1), Rhs(s2)))
    /\ (s1.type = "Reduce" /\ s2.type = "Reduce") =>
          (s.type = "Reduce" /\ Rhs(s) = BinOpE("+", Rhs(s1), Rhs(s2)))

RECURSIVE Copies(_, _, _, _)
Copies(body, it, lo, c) ==
    IF lo >= c THEN <<>>
    ELSE SubstAll(body, it, ConstE(lo)) \o Copies(body, it, lo + 1, c)

\* LoopIR_scheduling.DoUnroll: `for i in seq(0, 3): s` -> `s[i -> 0] ;
\* s[i -> 1] ; s[i -> 2]`; the bound must be a literal
DoUnroll(body, at) ==
    LET s  == body[at + 1]
        hi == Kids(s, "hi")[1]
    IN  IF hi.type # "Const" THEN Fail("SchedulingError")
        ELSE IF hi.val = 0 THEN Done(Replaced(body, at, at + 1, <<PassS>>))
             ELSE Done(Replaced(body, at, at + 1, Copies(Kids(s, "body"), s.name, 0, hi.val)))

\* a slip in unroll_loop: the first loop of the procedure is unrolled
\* instead of the one the cursor points to
unroll_loop_first(body, at) ==
    DoUnroll(body, CHOOSE j \in 0..at : IsLoop(body[j + 1])
                                          /\ \A i \in 0..(j - 1) : ~IsLoop(body[i + 1]))

unroll_loop(body, at) == DoUnroll(body, at)

\* for i in seq(0, c): x[i] = i + n ; t += i
Unr(c) == << SeqLoop("i", ConstE(c),
                     << AssignX("x", <<ReadE("i")>>, BinOpE("+", ReadE("i"), ReadE("n"))),
                        ReduceX("t", <<>>, ReadE("i")) >>) >>

UnrProcs == { Unr(c) : c \in 0..MaxSize }

RwUnrollLoop ==
    \E at \in LoopIdx(rwOut) :
        RwStep("unroll_loop", at, 0, 0, <<>>, FALSE, unroll_loop(rwOut, at))

\* C17: unroll_loop on a loop with literal bound c replaces it by c copies
\* of its body, in order, with the iterator replaced by 0, ..., c-1; for
\* c = 0 it leaves a single Pass; a loop with a non-literal bound is
\* rejected.
C17_UnrollLoop ==
    \A k \in RwCalls("unroll_loop") :
        LET old  == RwBefore(k)
            new  == rwOps[k].out
            at   == rwOps[k].at
            loop == old[at + 1]
            hi   == Kids(loop, "hi")[1]
            L    == Len(Kids(loop, "body"))
        IN  IF hi.type = "Const"
            THEN /\ rwOps[k].err = ""
                 /\ SubSeq(new, 1, at) = SubSeq(old, 1, at)
                 /\ IF hi.val = 0
                    THEN new = SubSeq(old, 1, at) \o <<PassS>> \o SubSeq(old, at + 2, Len(old))
                    ELSE /\ Len(new) = Len(old) - 1 + hi.val * L
                         /\ \A c \in 0..(hi.val - 1) : \A j \in 1..L :
                               new[at + c * L + j] = Subst(Kids(loop, "body")[j], loop.name, ConstE(c))
                         /\ SubSeq(new, at + hi.val * L + 1, Len(new)) = SubSeq(old, at + 2, Len(old))
                         /\ \A mem \in SizeStores : SameRun(old, new, mem)
            ELSE rwOps[k].err # "" /\ new = <<>>

C17_Witness ==
    \E k \in RwCalls("unroll_loop") :
        /\ rwOps[k].err = ""
        /\ Kids(RwBefore(k)[rwOps[k].at + 1], "hi")[1].val = MaxSize
        /\ Len(Kids(RwBefore(k)[rwOps[k].at + 1], "body")) = 2
        /\ Len(rwOps[k].out) = 2 * MaxSize

\* the names of the buffers and scalars the statements write
WrittenNames(ss) == { n.name : n \in { m \in NodesOf(ss) : IsWrite(m) } }
ReadNamesOf(ss)  == { n.name : n \in { m \in NodesOf(ss) : m.type = "Read" } }

\* Check_IsIdempotent: the statements only assign, and read nothing they write
IsIdempotent(ss) ==
    /\ \A n \in NodesOf(ss) : n.type # "Reduce"
    /\ WrittenNames(ss) \cap ReadNamesOf(ss) = {}

\* Check_IsPositiveExpr: the expression is positive for every size
IsPositiveExpr(e) == \A mem \in SizeStores : EvalM(e, mem) > 0

\* the body of a removed loop, guarded when the loop may not run at all
Unlooped(s) ==
    IF IsPositiveExpr(Kids(s, "hi")[1]) THEN Kids(s, "body")
    ELSE << IfS(BinOpE(">", Kids(s, "hi")[1], ConstE(0)), Kids(s, "body")) >>

\* LoopIR_scheduling.DoRemoveLoop: `for i in _: s` -> `s`
DoRemoveLoop(body, at) ==
    LET s == body[at + 1]
    IN  IF s.name \in ReadNamesOf(Kids(s, "body")) THEN Fail("SchedulingError")
        ELSE IF ~IsIdempotent(Kids(s, "body")) THEN Fail("SchedulingError")
             ELSE Done(Replaced(body, at, at + 1, Unlooped(s)))

\* a slip in remove_loop: the loop is dropped without the checks
remove_loop_unchecked(body, at) ==
    Done(Replaced(body, at, at + 1, Kids(body[at + 1], "body")))

\* a slip in remove_loop: the checked body is returned without the guard
remove_loop_unguarded(body, at) ==
    LET r == DoRemoveLoop(body, at)
    IN  IF r.err # "" THEN r
        ELSE Done(Replaced(body, at, at + 1, Kids(body[at + 1], "body")))

remove_loop(body, at) == DoRemoveLoop(body, at)

\* for i in seq(0, hi): ss
RemBodies ==
    { << AssignX("x", <<>>, ConstE(0)) >>,
      << ReduceX("x", <<>>, ConstE(1)) >>,
      << AssignX("x", <<>>, BinOpE("+", ReadE("x"), ConstE(1))) >>,
      << AssignX("a", <<ReadE("i")>>, ConstE(0)) >>,
      << AssignX("x", <<>>, ReadE("y")), AssignX("y", <<>>, ConstE(0)) >>,
      << AssignX("a", <<ConstE(0)>>, ReadE("y")), AssignX("x", <<>>, ReadE("y")) >> }

\* for i in seq(0, n): x = 0 ; for j in seq(0, n): x += 1
Rem2 == << SeqLoop("i", ReadE("n"), <<AssignX("x", <<>>, ConstE(0))>>),
           SeqLoop("j", ReadE("n"), <<ReduceX("x", <<>>, ConstE(1))>>) >>

RemProcs ==
    { << SeqLoop("i", hi, ss) >> :
        hi \in {ReadE("n"), BinOpE("-", ReadE("n"), ConstE(1))}, ss \in RemBodies }
      \cup {Rem2}

RwRemoveLoop ==
    \E at \in LoopIdx(rwOut) :
        RwStep("remove_loop", at, 0, 0, <<>>, FALSE, remove_loop(rwOut, at))

\* executing the statements twice differs from executing them once
RunsDiffer(ss, mem) ==
    ~SameMem(ExecStmts(ss \o ss, Store(mem)).mem, ExecStmts(ss, Store(mem)).mem)

\* the outcome of the statements depends on the value of the iterator
DependsOn(ss, it, mem) ==
    \E u, v \in 0..MaxSize :
        ~SameMem(ExecStmts(ss, Store(Put(mem, <<it>>, u))).mem,
                 Put(ExecStmts(ss, Store(Put(mem, <<it>>, v))).mem, <<it>>, u))

\* C18: remove_loop raises a precondition error and returns no procedure
\* whenever the loop body is not idempotent (executing it twice differs
\* from executing it once) or depends on the loop iterator; it succeeds on
\* `for i in seq(0, n): x = 0`, producing `x = 0`.
C18_RemoveLoop ==
    \A k \in RwCalls("remove_loop") :
        LET old  == RwBefore(k)
            at   == rwOps[k].at
            loop == old[at + 1]
            ss   == Kids(loop, "body")
        IN  /\ (\E mem \in ValStores : RunsDiffer(ss, mem) \/ DependsOn(ss, loop.name, mem))
                  => rwOps[k].err = "SchedulingError" /\ rwOps[k].out = <<>> /\ rwOut = old
            /\ loop = SeqLoop("i", ReadE("n"), <<AssignX("x", <<>>, ConstE(0))>>)
                  => /\ rwOps[k].err = ""
                     /\ rwOps[k].out = SubSeq(old, 1, at) \o <<AssignX("x", <<>>, ConstE(0))>>
                                         \o SubSeq(old, at + 2, Len(old))

C18_Witness ==
    /\ Len(rwOps) = 2
    /\ rwOps[1].op = "remove_loop"
    /\ rwOps[1].err = ""
    /\ rwOps[1].out[1] = AssignX("x", <<>>, ConstE(0))
    /\ rwOps[2].op = "remove_loop"
    /\ rwOps[2].err = "SchedulingError"
    /\ \E mem \in ValStores : RunsDiffer(Kids(rwOps[1].out[rwOps[2].at + 1], "body"), mem)

\* parse_fragment on `a`, or on `a op b` with a comparison operator
CondOps == {"<", ">", "=="}
ParseAtom(tk) == IF tk \in Numerals THEN ConstE(NumeralVal(tk)) ELSE ReadE(tk)
ParseExpr(tk) ==
    IF Len(tk) = 1 /\ tk[1] \notin CondOps THEN AOk(ExprV(ParseAtom(tk[1])))
    ELSE IF Len(tk) = 3 /\ tk[2] \in CondOps /\ tk[1] \notin CondOps /\ tk[3] \notin CondOps
         THEN AOk(ExprV(BinOpE(tk[2], ParseAtom(tk[1]), ParseAtom(tk[3]))))
         ELSE ARaise("ParseFragmentError", "parse_fragment", <<"cannot parse fragment">>)

\* NewExprA.__call__: isinstance(x, int) also holds of a bool
NewExprA(data, expr_str) ==
    IF expr_str.t \in {"int", "bool"} THEN AOk(ExprV(ConstE(expr_str.v)))
    ELSE IF expr_str.t # "str" THEN err(data, "expected a string", "TypeError")
         ELSE ParseExpr(expr_str.v)

\* ListOrElemA.__call__ over NewExprA
ListOrElemA(data, xs) ==
    IF xs.t \in {"list", "tuple"}
    THEN ListA(data, 0, xs, [j \in 1..Len(xs.v) |-> NewExprA(data, xs.v[j])])
    ELSE Collect(<<NewExprA(data, xs)>>)

\* if conds[1]: ss elif conds[2]: ss ... else: ss
RECURSIVE Cascade(_, _)
Cascade(ss, conds) ==
    IF conds = <<>> THEN ss
    ELSE << IfElse(conds[1], ss, Cascade(ss, Tail(conds))) >>

IsBoolExpr(e) == (e.type = "BinOp" /\ e.name \in {"<", ">", "<=", ">=", "==", "and", "or"})
                   \/ e \in {TrueE, FalseE}

\* LoopIR_scheduling.DoSpecialize on the statement at index `at`
DoSpecialize(body, at, conds) ==
    IF \E j \in 1..Len(conds) : ~IsBoolExpr(conds[j]) THEN Fail("SchedulingError")
    ELSE Done(Replaced(body, at, at + 1, Cascade(<<body[at + 1]>>, conds)))

SpecializeData == [i |-> 2, arg_name |-> "conds", f_name |-> "specialize"]

\* the block is the statements at..(at + len - 1); conds is the argument as
\* the caller passes it
specialize(body, at, len, conds) ==
    LET cs == ListOrElemA(SpecializeData, conds)
    IN  IF cs.err # "" THEN Fail(cs.err)
        ELSE IF len # 1 THEN Fail("NotImplementedError")
             ELSE DoSpecialize(body, at, [j \in 1..Len(cs.val.v) |-> cs.val.v[j].v])

CondStrs == { StrV(<<"n", "<", "2">>), StrV(<<"x", ">", "0">>) }

CondArgs ==
    CondStrs \cup { ListV(<<c>>) : c \in CondStrs }
      \cup { ListV(<<>>), ListV(<<StrV(<<"n", "<", "2">>), StrV(<<"x", ">", "0">>)>>),
              ListV(<<StrV(<<"<">>)>>), PairV(<<IntV(1)>>) }

\* x[0] = n ; t += x[0] ; x[0] = x[0] + 1
Spz1 == << AssignX("x", <<ConstE(0)>>, ReadE("n")),
           ReduceX("t", <<>>, ReadX("x", <<ConstE(0)>>)),
           AssignX("x", <<ConstE(0)>>, BinOpE("+", ReadX("x", <<ConstE(0)>>), ConstE(1))) >>

\* x += a[0] ; n = n + x
Spz2 == << ReduceX("x", <<>>, ReadX("a", <<ConstE(0)>>)),
           AssignX("n", <<>>, BinOpE("+", ReadE("n"), ReadE("x"))) >>

SpzProcs == {Spz1, Spz2}

\* the BlockCursors of one or two statements of the top-level body
BlockIdx(body) == { b \in (0..(Len(body) - 1)) \X (1..2) : b[1] + b[2] <= Len(body) }

RwSpecialize ==
    \E b \in BlockIdx(rwOut), conds \in CondArgs :
        RwStep("specialize", b[1], b[2], 0, conds, FALSE,
               specialize(rwOut, b[1], b[2], conds))

\* the conditions of a conds argument, when each is a comparison
CondList(conds) == IF conds.t = "str" THEN <<conds>> ELSE conds.v
WellFormed(conds) ==
    /\ conds.t \in {"str", "list"}
    /\ \A j \in 1..Len(CondList(conds)) : CondList(conds)[j] \in CondStrs

\* the branches of the first n levels of a cascade and its default branch
RECURSIVE Branches(_, _)
Branches(ss, n) ==
    IF n = 0 THEN <<ss>>
    ELSE IF Len(ss) = 1 /\ ss[1].type = "If"
         THEN <<Kids(ss[1], "body")>> \o Branches(Kids(ss[1], "orelse"), n - 1)
         ELSE <<>>

\* C19: specialize(block, conds) with n >= 1 conditions puts in the place
\* of the block an if/elif/else cascade of exactly n + 1 copies of it, the
\* last one as the default branch; exactly one copy executes, so the final
\* store is that of the original block; a bare string behaves as the list
\* holding it.
C19_Specialize ==
    \A k \in RwCalls("specialize") :
        (WellFormed(rwOps[k].xs) /\ Len(CondList(rwOps[k].xs)) >= 1) =>
            LET old == RwBefore(k)
                new == rwOps[k].out
                at  == rwOps[k].at
                len == rwOps[k].n
                n   == Len(CondList(rwOps[k].xs))
                bs  == Branches(SubSeq(new, at + 1, Len(new) - (Len(old) - at - len)), n)
            IN  /\ rwOps[k].err = ""
                /\ Len(new) = Len(old) - len + 1
                /\ SubSeq(new, 1, at) = SubSeq(old, 1, at)
                /\ SubSeq(new, at + 2, Len(new)) = SubSeq(old, at + len + 1, Len(old))
                /\ Len(bs) = n + 1
                /\ \A j \in 1..Len(bs) : bs[j] = SubSeq(old, at + 1, at + len)
                /\ \A mem \in ValStores :
                      /\ SameRun(old, new, mem)
                      /\ AccessLog(new, mem) = AccessLog(old, mem)
                /\ rwOps[k].xs.t = "str" =>
                      specialize(old, at, len, ListV(<<rwOps[k].xs>>)) = Done(new)

\* if name == 0: ss
Guarded(name, ss) == << IfS(BinOpE("==", ReadE(name), ConstE(0)), ss) >>

\* LoopIR_scheduling.DoAddLoop on the statement at index `at`: `s` ->
\* `for iter_name in seq(0, hi_expr): s`, with the guard `if iter_name == 0`
\* in place of the idempotence proof when guard is set
DoAddLoop(body, at, iter_name, hi_expr, guard) ==
    LET s == body[at + 1]
    IN  IF ~guard /\ ~IsIdempotent(<<s>>) THEN Fail("SchedulingError")
        ELSE IF ~IsPositiveExpr(hi_expr) THEN Fail("SchedulingError")
             ELSE Done(Replaced(body, at, at + 1,
                                << SeqLoop(iter_name, hi_expr,
                                           IF guard THEN Guarded(iter_name, <<s>>)
                                           ELSE <<s>>) >>))

AddLoopData(i, nm) == [i |-> i, arg_name |-> nm, f_name |-> "add_loop"]

\* the block is the statements at..(at + len - 1); iter_name, hi_expr and
\* guard are the arguments as the caller passes them
add_loop(body, at, len, iter_name, hi_expr, guard) ==
    LET nm == NameA(AddLoopData(2, "iter_name"), iter_name)
        hi == NewExprA(AddLoopData(3, "hi_expr"), hi_expr)
        g  == BoolA(AddLoopData(4, "guard"), guard)
    IN  IF nm.err # "" THEN Fail(nm.err)
        ELSE IF hi.err # "" THEN Fail(hi.err)
        ELSE IF g.err # "" THEN Fail(g.err)
        ELSE IF len # 1 THEN Fail("NotImplementedError")
        ELSE DoAddLoop(body, at, nm.val.v[1], hi.val.v, g.val.v)

HiArgs == { IntV(0), IntV(2), StrV(<<"n">>), StrV(<<"<">>) }

RwAddLoop ==
    \E b \in BlockIdx(rwOut), hi_expr \in HiArgs,
       guard \in {BoolV(TRUE), BoolV(FALSE), IntV(1)} :
        RwStep("add_loop", b[1], b[2], 0, <<StrV(<<"k">>), hi_expr, guard>>,
               guard = BoolV(TRUE), add_loop(rwOut, b[1], b[2], StrV(<<"k">>), hi_expr, guard))

\* the bound a hi_expr argument stands for
HiOf(hi_expr) == IF hi_expr.t = "int" THEN ConstE(hi_expr.v) ELSE ReadE(hi_expr.v[1])

\* C20: add_loop(block, name, hi, guard=True) puts `for name in seq(0, hi):
\* if name == 0: block` in the place of the block, whether or not the block
\* is idempotent, and whenever the op succeeds the block executes exactly
\* once, so the final store is that of the original; with guard=False the
\* op succeeds only on an idempotent block.
C20_AddLoop ==
    \A k \in RwCalls("add_loop") :
        LET old   == RwBefore(k)
            new   == rwOps[k].out
            at    == rwOps[k].at
            len   == rwOps[k].n
            block == SubSeq(old, at + 1, at + len)
            hi    == rwOps[k].xs[2]
        IN  /\ (rwOps[k].xs[3] = BoolV(TRUE) /\ hi \in {IntV(2), StrV(<<"n">>)}) =>
                  /\ rwOps[k].err = ""
                  /\ new = SubSeq(old, 1, at)
                             \o << SeqLoop("k", HiOf(hi), Guarded("k", block)) >>
                             \o SubSeq(old, at + len + 1, Len(old))
            /\ (rwOps[k].xs[3] = BoolV(TRUE) /\ rwOps[k].err = "") =>
                  \A mem \in ValStores :
                      SameRun(old, new, mem) /\ AccessLog(new, mem) = AccessLog(old, mem)
            /\ (rwOps[k].xs[3] = BoolV(FALSE) /\ rwOps[k].err = "") =>
                  \A mem \in ValStores : ~RunsDiffer(block, mem)

----------------------------------------------------------------------------
(* Totality of new_Cursor, checked under SpecNav *)

\* the calls whose result is built by new_Cursor
DispatchOps == {"parent", "before", "after", "prev", "next", "widx",
                "rhs", "cond", "hi", "arg", "lhs"}

\* C28: new_Cursor is total over the statement and expression variants: a
\* call that hands it a node never fails an assertion and returns the cursor
\* class of the node's variant (a Read gives a ReadCursor), and a block it
\* wraps is non-empty and of one kind.
C28_NewCursorTotal ==
    navRes.op \in DispatchOps =>
        /\ navRes.err # "AssertionError"
        /\ (navRes.err = "" /\ NavOut.k = "Node" /\ NavOut.field # "") =>
              LET t == CNode(navProc, NavOut).type
              IN  t \in StmtTypes \cup ExprTypes =>
                     navRes.cur.cls = IF t = "Read" THEN "ReadCursor" ELSE NodeClass(t)
        /\ (navRes.err = "" /\ NavOut.k = "Block") =>
              /\ NavOut.hi > NavOut.lo
              /\ navRes.cur.cls \in {"BlockCursor", "ArgsCursor"}

----------------------------------------------------------------------------
(* fission at the ends of a statement list, checked under SpecSt *)

\* the gap of call k is at an end of the statement list it points into
EdgeGap(k) ==
    \/ rwOps[k].n = 0
    \/ rwOps[k].n = Len(Kids(RwBefore(k)[rwOps[k].at + 1], "body"))

\* C27: fission with a gap cursor that has no statement before it or none
\* after it raises ValueError('expected cursor to point to a gap between
\* statements') and returns no procedure; it goes on to the rewrite only
\* for a gap strictly between two statements.
C27_FissionEdgeGap ==
    \A k \in RwCalls("fission") :
        IF EdgeGap(k) THEN rwOps[k].err = "ValueError"
        ELSE rwOps[k].err \in {"", "SchedulingError"}

----------------------------------------------------------------------------
(* remove_loop on a loop that may not run, checked under SpecSt *)

\* the loop runs zero times from the store
ZeroTrip(loop, mem) == EvalM(Kids(loop, "hi")[1], mem) <= 0

----------------------------------------------------------------------------
(* SpecArg: scripts whose cursor arguments are given by the shorthands of   *)
(* the call, allocation, loop and nested-loop processors.                   *)

\* p(N, a): x : R ; foo(N) ; for i in seq(0, 2): x : R ; foo(a)
\*          for i in seq(0, 2): for j in seq(0, 2): y[j] += 1 ; foo(2) ; g()
\*          for i in seq(0, 2): for j in seq(0, 2): y[i] += y[j] + 1
RootF ==
    ProcNode(<< SId(AllocS("x"), 1),
                SId(CallS("foo", 2, <<ReadE("N")>>), 2),
                SId(SeqLoop("i", ConstE(2),
                            << SId(AllocS("x"), 4),
                               SId(CallS("foo", 2, <<ReadE("a")>>), 5) >>), 3),
                SId(SeqLoop("i", ConstE(2),
                            << SId(SeqLoop("j", ConstE(2),
                                     << SId(ReduceInto("y", <<ReadE("j")>>, ConstE(1)), 8) >>),
                                   7) >>), 6),
                SId(CallS("foo", 2, <<ConstE(2)>>), 9),
                SId(CallS("g", 4, <<>>), 10),
                SId(SeqLoop("i", ConstE(2),
                            << SId(SeqLoop("j", ConstE(2),
                                     << SId(ReduceInto("y", <<ReadE("i")>>,
                                               BinOpE("+", ReadX("y", <<ReadE("j")>>),
                                                      ConstE(1))), 13) >>),
                                   12) >>), 11) >>)

\* foo(v): for k in seq(0, v): pass
Foo == ProcWith("foo", <<ReadE("v")>>, << SId(SeqLoop("k", ReadE("v"), <<SId(PassS, 2)>>), 1) >>)

\* r(v): pass ; for k in seq(0, v): pass -- foo after insert_pass and rename
FooR ==
    ProcWith("r", <<ReadE("v")>>,
             << SId(PassS, 3), SId(SeqLoop("k", ReadE("v"), <<SId(PassS, 2)>>), 1) >>)

ArgInit ==
    /\ NavIdle
    /\ LpIdle
    /\ RwIdle
    /\ procs = << Procedure(RootF, 1, 0, Rewrite("", NoCur, 0)),
                  Procedure(Foo, 2, 0, Rewrite("", NoCur, 0)),
                  Procedure(FooR, 2, 2, Rewrite("rename", NoCur, 2)),
                  Procedure(Other, 3, 0, Rewrite("", NoCur, 0)) >>
    /\ call = NoCall

\* the procedures derived from p the script holds, and p
Roots(ps) == { ProcV(pi) : pi \in { q \in Held(ps) : ps[q].eqv = 1 } }

CursorVals(ps, cls) ==
    { c \in StmtCursorVals(ps) : c.v.cls = cls /\ ps[c.v.proc].eqv = 1 }

CallPatterns ==
    { StrV(<<"foo">>), StrV(<<"foo", "#", "2">>), StrV(<<"foo", "#", "4">>),
      StrV(<<"foo", "(", "_", ")">>), StrV(<<"foo", "(", "_", ")", "#", "2">>),
      StrV(<<"x">>), StrV(<<"pass">>), ProcV(2), ProcV(4), IntV(3) }

ArgInline ==
    \E proc \in Roots(procs), c \in CallPatterns \cup CursorVals(procs, "CallCursor") :
        Step("inline", <<proc, c>>)

ArgCallEqv ==
    \E proc \in Roots(procs),
       c \in {StrV(<<"foo">>), StrV(<<"foo", "#", "2">>), StrV(<<"g">>), ProcV(2)},
       eqv_proc \in ProcVals(procs) \cup {IntV(3)} :
        Step("call_eqv", <<proc, c, eqv_proc>>)

ArgRename ==
    \E proc \in ProcVals(procs) \ Roots(procs) : Step("rename", <<proc, StrV(<<"r">>)>>)

AllocPatterns ==
    { StrV(<<"x">>), StrV(<<"x", "#", "2">>), StrV(<<"x", "#", "4">>), StrV(<<"y">>),
      StrV(<<"x", ":", "_">>), StrV(<<"x", ":", "_", "#", "2">>), StrV(<<"pass">>), IntV(3) }

ArgLiftAlloc ==
    \E proc \in Roots(procs), c \in AllocPatterns \cup CursorVals(procs, "AllocCursor"),
       n \in {<<>>, <<IntV(1)>>, <<IntV(2)>>} :
        Step("lift_alloc", <<proc, c>> \o n)

LoopPatterns ==
    { StrV(<<"i">>), StrV(<<"i", "#", "2">>), StrV(<<"j", "#", "2">>), StrV(<<"i", "#", "4">>),
      StrV(<<"for", "i", "in", "_", ":", "_", "#", "2">>) }

ArgDivideLoop ==
    \E proc \in Roots(procs), c \in LoopPatterns :
        Step("divide_loop", <<proc, c, IntV(2), ListV(<<StrV(<<"io">>), StrV(<<"ii">>)>>)>>)

NestPatterns ==
    { StrV(<<"i", "j">>), StrV(<<"i", "j", "#", "1">>), StrV(<<"i", "j", "#", "2">>),
      StrV(<<"j", "i">>), StrV(<<"i">>),
      StrV(<<"for", "i", "in", "_", ":", "for", "j", "in", "_", ":", "_">>),
      StrV(<<"for", "i", "in", "_", ":", "_", "#", "2">>), IntV(3) }

ArgReorderLoops ==
    \E proc \in Roots(procs),
       c \in NestPatterns \cup CursorVals(procs, "ForSeqCursor")
               \cup CursorVals(procs, "CallCursor") :
        Step("reorder_loops", <<proc, c>>)

ArgNext ==
    \/ ArgInline
    \/ ArgCallEqv
    \/ ArgRename
    \/ ArgLiftAlloc
    \/ ArgDivideLoop
    \/ ArgReorderLoops

SpecArg == ArgInit /\ [][ArgNext]_vars

----------------------------------------------------------------------------
(* The single-name shorthands of the cursor processors. *)

\* the statements of the given node types named `name`, in pre-order
Occurrences(ir, types, name) ==
    LET is(q) == NodeAt(ir, q).type \in types /\ NodeAt(ir, q).name = name
    IN  SelectSeq2(PreOrder(ir, <<>>), is)

\* the statements the cursor argument of an operation stands for
ShorthandTypes(op) ==
    CASE op \in {"inline", "call_eqv"} -> {"Call"}
      [] op = "lift_alloc"             -> {"Alloc"}
      [] OTHER                         -> {"Seq", "ForAll"}

\* C24: a cursor argument given as `name #k` (calls for inline and
\* call_eqv, allocations for lift_alloc, loops for divide_loop) is resolved
\* to the k-th statement of that kind and name in pre-order, and a bare
\* `name` or a Procedure value to the first, whenever that statement exists.
C24_ShorthandOccurrence ==
    (/\ call.op \in {"inline", "call_eqv", "lift_alloc", "divide_loop"}
     /\ call.by # "bind"
     /\ call.at \notin {1, 3}
     /\ (NameCountMatch(call.args[2]) \/ call.args[2].t = "Procedure")) =>
        LET ir   == procs[call.args[1].v].ir
            name == IF call.args[2].t = "Procedure" THEN procs[call.args[2].v].ir.name
                    ELSE call.args[2].v[1]
            k    == IF call.args[2].t = "Procedure" THEN 1 ELSE PatCount(call.args[2].v)
            occ  == Occurrences(ir, ShorthandTypes(call.op), name)
        IN  k \in 1..Len(occ) =>
                /\ call.at = 0
                /\ call.bargs[2].v.impl = NodeOfPath(occ[k])

\* the loops named `outer` whose body is exactly one loop named `inner`,
\* in pre-order
NestOccurrences(ir, outer, inner) ==
    LET is(q) == LET n == NodeAt(ir, q)
                 IN  /\ IsLoop(n) /\ n.name = outer
                     /\ Len(Kids(n, "body")) = 1
                     /\ IsLoop(Kids(n, "body")[1]) /\ Kids(n, "body")[1].name = inner
    IN  SelectSeq2(PreOrder(ir, <<>>), is)

NestPattern(a) ==
    /\ a.t = "str" /\ Len(PatBody(a.v)) = 11
    /\ SubSeq(a.v, 3, 6) = <<"in", "_", ":", "for">> /\ a.v[1] = "for"

\* C25: the nested-loops argument of reorder_loops is accepted as a loop
\* cursor whose body is exactly one loop, as a pattern string `for o in _:
\* for i in _: _` that finds such a loop, and as the shorthand `o i` with
\* an optional `#k`, which resolves to the k-th such nest; a loop cursor
\* whose body is not a single loop is rejected with ValueError and a cursor
\* of another kind with TypeError.
C25_NestedLoopsArgument ==
    (call.op = "reorder_loops" /\ call.by # "bind" /\ call.at # 1) =>
        LET a  == call.args[2]
            ir == procs[call.args[1].v].ir
            resolves(outer, inner, k) ==
                k \in 1..Len(NestOccurrences(ir, outer, inner)) =>
                    /\ call.at = 0
                    /\ call.bargs[2].v.impl = NodeOfPath(NestOccurrences(ir, outer, inner)[k])
        IN  /\ (IsCursor(a) /\ a.v.cls = "ForSeqCursor") =>
                  IF IsNest(CNode(procs[a.v.proc].ir, a.v.impl))
                  THEN call.at = 0 /\ call.bargs[2] = a
                  ELSE call.at = 2 /\ call.err = "ValueError"
            /\ (IsCursor(a) /\ a.v.cls # "ForSeqCursor") =>
                  call.at = 2 /\ call.err = "TypeError"
            /\ NameNameCountMatch(a) =>
                  resolves(a.v[1], a.v[2], IF Len(a.v) = 4 THEN NumeralVal(a.v[4]) ELSE 1)
            /\ NestPattern(a) => resolves(a.v[2], a.v[7], PatCount(a.v))

----------------------------------------------------------------------------
(* Provenance classes. *)

\* the Call statements of a tree
CallsOf(ir) == { n \in { NodeAt(ir, q) : q \in StmtPaths(ir) } : n.type = "Call" }

\* C29: a procedure derived from another by scheduling operations is in its
\* provenance class; call_eqv raises and returns nothing when the new callee
\* is not in the provenance class of the old one, and the callee of every
\* call of a procedure derived from p stays in the class it was in (foo's
\* class for the calls to foo, g's class for the call to g).
C29_ProvenanceClasses ==
    /\ \A i, j \in 1..Len(procs) : DerivedFrom(procs, i, j) => procs[i].eqv = procs[j].eqv
    /\ (call.op = "call_eqv" /\ call.invoked) =>
          LET stmt == CNode(procs[call.bargs[1].v].ir, call.bargs[2].v.impl)
          IN  procs[call.bargs[3].v].eqv # procs[Callee(stmt)].eqv => call.err # ""
    /\ \A pi \in 1..Len(procs) :
          procs[pi].eqv = 1 =>
              \A s \in CallsOf(procs[pi].ir) :
                  procs[Callee(s)].eqv = (IF s.val = 10 THEN 3 ELSE 2)

\* call_eqv on a procedure derived from p has swapped a callee for r
C29_Witness ==
    /\ call.seq = 2
    /\ call.op = "call_eqv"
    /\ call.err = ""
    /\ call.bargs[1].v > 4
    /\ procs[call.bargs[3].v].ir.name = "r"
    /\ \E s \in CallsOf(procs[Len(procs)].ir) : s.name = "r"

----------------------------------------------------------------------------
(* replace, commute_expr and bind_config *)

\* LoopIR_unification: the bindings (formal or iterator of the sub-procedure,
\* name in the block) under which tree a of the sub-procedure is tree b of
\* the block; Mismatch when the trees differ in shape
Mismatch == <<"", "">>

RECURSIVE Unify(_, _)
UnifyAll(us, vs) ==
    IF Len(us) # Len(vs) THEN {Mismatch}
    ELSE UNION { Unify(us[j], vs[j]) : j \in 1..Len(us) }

Unify(a, b) ==
    IF a.type # b.type \/ Len(a.kids) # Len(b.kids) THEN {Mismatch}
    ELSE (CASE a.type \in {"Read", "Assign", "Reduce", "Seq", "ForAll"} ->
                  {<<a.name, b.name>>}
            [] a.type = "Const" -> IF a.val = b.val THEN {} ELSE {Mismatch}
            [] OTHER            -> IF a.name = b.name THEN {} ELSE {Mismatch})
         \cup UNION { IF a.kids[k][1] # b.kids[k][1] THEN {Mismatch}
                      ELSE UnifyAll(a.kids[k][2], b.kids[k][2]) : k \in 1..Len(a.kids) }

\* the block unifies when every name of the sub-procedure is bound to one
\* name of the block and every formal is bound
Unifies(u, formals) ==
    /\ Mismatch \notin u
    /\ \A p, q \in u : p[1] = q[1] => p[2] = q[2]
    /\ \A j \in 1..Len(formals) : \E p \in u : p[1] = formals[j].name

\* LoopIR_unification.DoReplace: the statement at index `at` becomes a Call
\* to the sub-procedure (number f) with the inferred actuals
DoReplace(sub, f, body, at) ==
    LET u       == UnifyAll(Kids(sub, "body"), <<body[at + 1]>>)
        formals == Kids(sub, "args")
        actual(x) == (CHOOSE p \in u : p[1] = x)[2]
    IN  IF ~Unifies(u, formals) THEN Fail("UnificationError")
        ELSE Done([body EXCEPT ![at + 1] =
                     SId(CallS(sub.name, f,
                               [j \in 1..Len(formals) |-> ReadE(actual(formals[j].name))]),
                         body[at + 1].val)])

\* vadd4(A, B, C): for i in seq(0, 4): C[i] = A[i] + B[i]
Vadd4 ==
    ProcWith("vadd4", <<ReadE("A"), ReadE("B"), ReadE("C")>>,
             << SeqLoop("i", ConstE(4),
                  << AssignX("C", <<ReadE("i")>>,
                             BinOpE("+", ReadX("A", <<ReadE("i")>>),
                                    ReadX("B", <<ReadE("i")>>))) >>) >>)

\* vdbl(A, C): for i in seq(0, 4): C[i] = A[i] + A[i]
Vdbl ==
    ProcWith("vdbl", <<ReadE("A"), ReadE("C")>>,
             << SeqLoop("i", ConstE(4),
                  << AssignX("C", <<ReadE("i")>>,
                             BinOpE("+", ReadX("A", <<ReadE("i")>>),
                                    ReadX("A", <<ReadE("i")>>))) >>) >>)

SubProcs == <<Vadd4, Vdbl>>

Printed(r, printed) == [err |-> r.err, stmts |-> r.stmts, printed |-> printed]

\* a slip in replace: with quiet the failure is swallowed and the
\* procedure is returned as it was
replace_swallow(body, at, f, quiet) ==
    LET r == DoReplace(SubProcs[f], f, body, at)
    IN  IF r.err # "" /\ quiet THEN Printed(Done(body), FALSE)
        ELSE Printed(r, r.err # "" /\ ~quiet)

\* replace: `except UnificationError: if quiet: raise; print(...); raise`
replace(body, at, f, quiet) ==
    LET r == DoReplace(SubProcs[f], f, body, at)
    IN  Printed(r, r.err # "" /\ ~quiet)

\* the expressions of a body, and the cursors new_Cursor makes for them
ExprPaths(body) ==
    { q \in PathsFrom(ProcNode(body), <<>>) :
        /\ q # <<>>
        /\ NodeAt(ProcNode(body), q).type \in ExprTypes
        /\ \A j \in 1..Len(q) : q[j][1] # "f" }

ExprCursors(body) ==
    { r.cur : r \in { s \in { new_Cursor(ProcNode(body), NodeOfPath(q)) : q \in ExprPaths(body) }
                        : s.err = "" } }

\* the type of an expression is numeric unless it is an index, a loop bound
\* or a condition
is_numeric(c) ==
    /\ c.impl.field \notin {"idx", "hi", "cond"}
    /\ \A j \in 1..Len(c.impl.path) : c.impl.path[j][1] \notin {"idx", "hi", "cond"}

\* the node at path q is replaced
PutNode(ir, q, new) ==
    LET c == NodeOfPath(q)
    IN  UpdateAt(ir, c.path, c.field, [ListOf(ir, c) EXCEPT ![c.lo + 1] = new])

\* LoopIR_scheduling.DoCommuteExpr: `a + b` -> `b + a` for every cursor
DoCommuteExpr(body, exprs) ==
    LET F[j \in 0..Len(exprs)] ==
            IF j = 0 THEN ProcNode(body)
            ELSE LET e == CNode(F[j - 1], exprs[j].impl)
                 IN  PutNode(F[j - 1], PathOf(exprs[j].impl),
                             BinOpE(e.name, Rhs(e), Lhs(e)))
    IN  Done(Kids(F[Len(exprs)], "body"))

Commutes(e) == e.type = "BinOp" /\ e.name \in {"+", "*"}

\* commute_expr.  The message of the first TypeError reads e._node.op,
\* which only a BinOp has.
commute_expr(body, expr_cursors) ==
    LET node(j) == CNode(ProcNode(body), expr_cursors[j].impl)
        bad     == { j \in 1..Len(expr_cursors) : ~Commutes(node(j)) }
        first   == CHOOSE j \in bad : \A k \in bad : j <= k
    IN  IF bad # {}
        THEN IF node(first).type = "BinOp" THEN Fail("TypeError") ELSE Fail("AttributeError")
        ELSE IF \E j \in 1..Len(expr_cursors) : ~is_numeric(expr_cursors[j])
             THEN Fail("TypeError")
             ELSE DoCommuteExpr(body, expr_cursors)

\* a Config object: its name and its fields with their types
Cfg == [name |-> "cfg", fields |-> << <<"k", "size">>, <<"r", "R">> >>]

has_field(config, field) == \E j \in 1..Len(config.fields) : config.fields[j][1] = field
lookup(config, field) == CHOOSE fd \in Range(config.fields) : fd[1] = field

\* ConfigFieldA.__call__
ConfigFieldA(config, field) ==
    IF ~is_valid_name(field) THEN "TypeError"
    ELSE IF ~has_field(config, field.v[1]) THEN "ValueError"
         ELSE ""

\* the type of a variable: sizes n and N, loop iterators, real-valued buffers
VarType(x) ==
    CASE x \in {"n", "N"} -> "size" [] x \in {"i", "j", "t"} -> "index" [] OTHER -> "R"

ReadConfigE(config, field) == Nd("ReadConfig", field, <<>>)
WriteConfigS(config, field, e) == Nd("WriteConfig", field, << <<"rhs", <<e>> >> >>)

\* the path of the statement an expression belongs to
StmtOf(ir, q) ==
    LET ks == { k \in 1..Len(q) : NodeAt(ir, SubSeq(q, 1, k)).type \in StmtTypes }
    IN  SubSeq(q, 1, CHOOSE k \in ks : \A m \in ks : m <= k)

\* LoopIR_scheduling.DoBindConfig: `s[ e ]` -> `config.field = e ; s[ config.field ]`
DoBindConfig(body, config, field, c) ==
    LET ir  == ProcNode(body)
        q   == PathOf(c.impl)
        s   == NodeOfPath(StmtOf(ir, q))
        ir1 == PutNode(ir, q, ReadConfigE(config, field))
        xs  == ListOf(ir1, s)
    IN  Done(Kids(UpdateAt(ir1, s.path, s.field,
                           SubSeq(xs, 1, s.lo)
                             \o <<WriteConfigS(config, field, CNode(ir, c.impl))>>
                             \o SubSeq(xs, s.lo + 1, Len(xs))), "body"))

\* bind_config, after the processors of its arguments
bind_config(body, var_cursor, config, field) ==
    LET e == CNode(ProcNode(body), var_cursor.impl)
    IN  IF ConfigFieldA(config, field) # "" THEN Fail(ConfigFieldA(config, field))
        ELSE IF e.type # "Read" THEN Fail("ValueError")
        ELSE IF VarType(e.name) # lookup(config, field.v[1])[2] THEN Fail("ValueError")
        ELSE DoBindConfig(body, config, field.v[1], var_cursor)

----------------------------------------------------------------------------
(* SpecSub: scripts of replace, commute_expr and bind_config.               *)

\* for t in seq(0, 4): Z[t] = X[t] + second
\* for t in seq(0, 4): Z[t] = X[t] - Y[t]
\* for i in seq(0, n): x[i + 1] = 2 * a
SubBody(second) ==
    << SId(SeqLoop("t", ConstE(4),
             << SId(AssignX("Z", <<ReadE("t")>>,
                            BinOpE("+", ReadX("X", <<ReadE("t")>>),
                                   ReadX(second, <<ReadE("t")>>))), 2) >>), 1),
       SId(SeqLoop("t", ConstE(4),
             << SId(AssignX("Z", <<ReadE("t")>>,
                            BinOpE("-", ReadX("X", <<ReadE("t")>>),
                                   ReadX("Y", <<ReadE("t")>>))), 4) >>), 3),
       SId(SeqLoop("i", ReadE("n"),
             << SId(AssignX("x", <<BinOpE("+", ReadE("i"), ConstE(1))>>,
                            BinOpE("*", ConstE(2), ReadE("a"))), 6) >>), 5) >>

SubInit ==
    /\ NavIdle
    /\ LpIdle
    /\ SessIdle
    /\ rwIn \in {SubBody("Y"), SubBody("X")}
    /\ rwOut = rwIn
    /\ rwOps = <<>>

\* the call returns r: the script goes on with the new procedure
SubStep(op, at, f, xs, flag, r) ==
    /\ Len(rwOps) < MaxRwOps
    /\ \A k \in 1..Len(rwOps) : rwOps[k].err = ""
    /\ rwOps' = Append(rwOps, [op |-> op, at |-> at, f |-> f, xs |-> xs, flag |-> flag,
                               err |-> r.err, out |-> r.stmts, printed |-> r.printed])
    /\ rwOut' = IF r.err = "" THEN r.stmts ELSE rwOut
    /\ UNCHANGED rwIn
    /\ UNCHANGED navVars
    /\ UNCHANGED lpVars
    /\ UNCHANGED sessVars

SubReplace ==
    \E at \in 0..(Len(rwOut) - 1), f \in 1..Len(SubProcs), quiet \in BOOLEAN :
        SubStep("replace", at, f, <<>>, quiet, replace(rwOut, at, f, quiet))

\* the lists of one or two different expression cursors
CursorLists(body) ==
    { <<c>> : c \in ExprCursors(body) }
      \cup { cs \in ExprCursors(body) \X ExprCursors(body) : cs[1] # cs[2] }

SubCommuteExpr ==
    \E cs \in CursorLists(rwOut) :
        SubStep("commute_expr", 0, 0, cs, FALSE, Printed(commute_expr(rwOut, cs), FALSE))

Fields == {StrV(<<"k">>), StrV(<<"r">>), StrV(<<"g">>), StrV(<<"2x">>), IntV(3)}

SubBindConfig ==
    \E c \in ExprCursors(rwOut), field \in Fields :
        SubStep("bind_config", 0, 0, <<c, field>>, FALSE,
                Printed(bind_config(rwOut, c, Cfg, field), FALSE))

SubNext ==
    \/ SubReplace
    \/ SubCommuteExpr
    \/ SubBindConfig

SpecSub == SubInit /\ [][SubNext]_vars

----------------------------------------------------------------------------
(* Properties of replace, commute_expr and bind_config. *)

\* some expression of the list is not a numeric `+` or `*`
SomeInvalid(body, cs) ==
    \E j \in 1..Len(cs) :
        ~Commutes(CNode(ProcNode(body), cs[j].impl)) \/ ~is_numeric(cs[j])

\* C26: commute_expr raises TypeError and returns no procedure when one of
\* the expressions is not a binary `+` or `*` (a constant or a unary minus
\* included) or is not numeric.
C26_CommuteTypeError ==
    \A k \in RwCalls("commute_expr") :
        SomeInvalid(RwBefore(k), rwOps[k].xs) => rwOps[k].err = "TypeError"

\* the names of the actuals of a Call
ActualNames(stmt) == [j \in 1..Len(Kids(stmt, "args")) |-> Kids(stmt, "args")[j].name]

WriteConfigs(body) ==
    { q \in StmtPaths(ProcNode(body)) : NodeAt(ProcNode(body), q).type = "WriteConfig" }

\* C23: bind_config raises ValueError and returns nothing when the field is
\* not a field of the config, when the expression is not a bare variable
\* read, or when the type of the variable is not the declared type of the
\* field; when it succeeds one `cfg.field = var` is inserted just before the
\* statement of the expression, which reads cfg.field instead.
C23_BindConfig ==
    \A k \in RwCalls("bind_config") :
        LET body  == RwBefore(k)
            c     == rwOps[k].xs[1]
            field == rwOps[k].xs[2]
            e     == CNode(ProcNode(body), c.impl)
            s     == StmtOf(ProcNode(body), PathOf(c.impl))
            out   == rwOps[k].out
        IN  /\ (\/ field.t # "str"
                \/ Len(field.v) # 1
                \/ ~has_field(Cfg, field.v[1])
                \/ e.type # "Read"
                \/ VarType(e.name) # lookup(Cfg, field.v[1])[2]) =>
                  rwOps[k].err = "ValueError" /\ out = <<>>
            /\ rwOps[k].err = "" =>
                  /\ Cardinality(WriteConfigs(out)) = Cardinality(WriteConfigs(body)) + 1
                  /\ NodeAt(ProcNode(out), s).type = "WriteConfig"
                  /\ NodeAt(ProcNode(out), s).name = field.v[1]
                  /\ Kids(NodeAt(ProcNode(out), s), "rhs") = <<e>>

----------------------------------------------------------------------------
(* SpecPar: scripts of rewrites on a procedure with parallel loops.         *)

ParLoop(it, hi, body) == Nd("ForAll", it, << <<"hi", <<hi>> >>, <<"body", body>> >>)

\* p(n, a): for i in par(0, 2): t : R ; t = a ; x[i] = t
\*          for i in par(0, n): for j in seq(0, 2): x[i] += 1
\*          for j in seq(0, 2): for k in par(0, 2): y[k] += j
\*          for k in par(0, 2): y[k] = y[k] + x[0]
\*          for j in seq(0, 2): u : R ; u = a ; for k in par(0, 2): z[k] = u
RootPar ==
    ProcNode(<< SId(ParLoop("i", ConstE(2),
                      << SId(AllocS("t"), 2),
                         SId(AssignX("t", <<>>, ReadE("a")), 3),
                         SId(AssignX("x", <<ReadE("i")>>, ReadE("t")), 4) >>), 1),
                SId(ParLoop("i", ReadE("n"),
                      << SId(SeqLoop("j", ConstE(2),
                               << SId(ReduceX("x", <<ReadE("i")>>, ConstE(1)), 7) >>), 6) >>), 5),
                SId(SeqLoop("j", ConstE(2),
                      << SId(ParLoop("k", ConstE(2),
                               << SId(ReduceX("y", <<ReadE("k")>>, ReadE("j")), 10) >>), 9) >>), 8),
                SId(ParLoop("k", ConstE(2),
                      << SId(AssignX("y", <<ReadE("k")>>,
                                     BinOpE("+", ReadX("y", <<ReadE("k")>>),
                                            ReadX("x", <<ConstE(0)>>))), 12) >>),
                    11),
                SId(SeqLoop("j", ConstE(2),
                      << SId(AllocS("u"), 14),
                         SId(AssignX("u", <<>>, ReadE("a")), 15),
                         SId(ParLoop("k", ConstE(2),
                               << SId(AssignX("z", <<ReadE("k")>>, ReadE("u")), 17) >>), 16) >>),
                    13) >>)

ParInit ==
    /\ NavIdle
    /\ LpIdle
    /\ RwIdle
    /\ procs = << Procedure(RootPar, 1, 0, Rewrite("", NoCur, 0)) >>
    /\ call = NoCall

ParLiftAlloc ==
    \E proc \in ProcVals(procs),
       c \in {StrV(<<"t">>), StrV(<<"u">>), StrV(<<"t", ":", "_">>), StrV(<<"u", ":", "_">>)},
       n \in {<<>>, <<IntV(1)>>, <<IntV(2)>>} :
        Step("lift_alloc", <<proc, c>> \o n)

ParReorderLoops ==
    \E proc \in ProcVals(procs),
       c \in {StrV(<<"i", "j">>), StrV(<<"j", "k">>), StrV(<<"j", "i">>), StrV(<<"k", "j">>)} :
        Step("reorder_loops", <<proc, c>>)

ParDeletePass == \E proc \in ProcVals(procs) : Step("delete_pass", <<proc>>)

ParNext ==
    \/ ParLiftAlloc
    \/ ParReorderLoops
    \/ ParDeletePass

SpecPar == ParInit /\ [][ParNext]_vars

----------------------------------------------------------------------------
(* The runs of a parallel loop. *)

\* the names allocated in a body: each iteration has its own
AllocNames(ss) == { n.name : n \in { m \in NodesOf(ss) : m.type = "Alloc" } }

\* the keys an expression reads
ReadKeys(e, mem) == { KeyOf(n, mem) : n \in { m \in SubNodes(e) : m.type = "Read" } }

NoEffect == [r |-> {}, w |-> {}]
Join(a, b) == [r |-> a.r \cup b.r, w |-> a.w \cup b.w]

\* the keys a run of ss from mem reads and writes
RECURSIVE Effects(_, _)
EffectsOf(s, mem) ==
    CASE s.type \in {"Assign", "Reduce"} ->
            [r |-> UNION { ReadKeys(Kids(s, "idx")[j], mem) : j \in 1..Len(Kids(s, "idx")) }
                     \cup ReadKeys(Rhs(s), mem)
                     \cup (IF s.type = "Reduce" THEN {KeyOf(s, mem)} ELSE {}),
             w |-> {KeyOf(s, mem)}]
      [] s.type \in {"Seq", "ForAll"} ->
            LET N == EvalM(Kids(s, "hi")[1], mem)
                at(k) == Put(ExecLoop(s.name, k, Kids(s, "body"), Store(mem), 0).mem,
                             <<s.name>>, k)
                runs == { Effects(Kids(s, "body"), at(k)) : k \in 0..(N - 1) }
            IN  [r |-> UNION { e.r : e \in runs } \cup ReadKeys(Kids(s, "hi")[1], mem),
                 w |-> UNION { e.w : e \in runs }]
      [] OTHER -> NoEffect

Effects(ss, mem) ==
    IF ss = <<>> THEN NoEffect
    ELSE Join(EffectsOf(ss[1], mem), Effects(Tail(ss), ExecStmt(ss[1], Store(mem)).mem))

\* the effect of iteration k of a loop entered with store mem, on what the
\* iterations share
IterEffect(loop, mem, k) ==
    LET e == Effects(Kids(loop, "body"), Put(mem, <<loop.name>>, k))
        shared(keys) == { key \in keys : key[1] \notin AllocNames(Kids(loop, "body")) }
    IN  [r |-> shared(e.r), w |-> shared(e.w)]

Iterations(loop, mem) == 0..(EvalM(Kids(loop, "hi")[1], mem) - 1)

\* no two iterations write the same location
WriteDisjoint(loop, mem) ==
    \A k1, k2 \in Iterations(loop, mem) :
        k1 # k2 => IterEffect(loop, mem, k1).w \cap IterEffect(loop, mem, k2).w = {}

\* no iteration reads a location another iteration writes
ReadDisjoint(loop, mem) ==
    \A k1, k2 \in Iterations(loop, mem) :
        k1 # k2 => IterEffect(loop, mem, k1).r \cap IterEffect(loop, mem, k2).w = {}

\* the iterations run one after the other in the given order
ExecOrder(loop, order, mem) ==
    LET F[j \in 0..Len(order)] ==
            IF j = 0 THEN Store(mem)
            ELSE ExecStmts(Kids(loop, "body"),
                           Store(Put(F[j - 1].mem, <<loop.name>>, order[j])))
    IN  F[Len(order)].mem

Orders(N) == { f \in [1..N -> 0..(N - 1)] : \A a, b \in 1..N : a # b => f[a] # f[b] }

\* every order of the iterations ends in the store of the order 0..N-1, on
\* what the iterations share
OrdersAgree(loop, mem) ==
    LET N == Cardinality(Iterations(loop, mem))
        hidden == AllocNames(Kids(loop, "body")) \cup {loop.name}
        seq == ExecOrder(loop, [j \in 1..N |-> j - 1], mem)
    IN  \A order \in Orders(N) :
            LET out == ExecOrder(loop, order, mem)
            IN  \A key \in DOMAIN out \cup DOMAIN seq :
                    key[1] \notin hidden => Get(out, key) = Get(seq, key)

ParTest(loop, mem, what) ==
    CASE what = "write" -> WriteDisjoint(loop, mem)
      [] what = "read"  -> ReadDisjoint(loop, mem)
      [] OTHER          -> OrdersAgree(loop, mem)

\* the test holds of every parallel loop of ss, with each store a run of ss
\* from mem enters it with
RECURSIVE ParHolds(_, _, _)
ParHoldsIn(s, mem, what) ==
    IF s.type \in {"Seq", "ForAll"}
    THEN /\ s.type = "ForAll" => ParTest(s, mem, what)
         /\ \A k \in Iterations(s, mem) :
               ParHolds(Kids(s, "body"),
                        Put(ExecLoop(s.name, k, Kids(s, "body"), Store(mem), 0).mem,
                            <<s.name>>, k),
                        what)
    ELSE TRUE

ParHolds(ss, mem, what) ==
    \/ ss = <<>>
    \/ /\ ParHoldsIn(ss[1], mem, what)
       /\ ParHolds(Tail(ss), ExecStmt(ss[1], Store(mem)).mem, what)

\* the procedure the last call returned
Result == procs[Len(procs)].ir

ParAll(ir, what) == \A mem \in SizeStores : ParHolds(Kids(ir, "body"), mem, what)

\* C21: after a successful rewrite the iterations of every parallel loop of
\* the result write disjoint locations, none reads a location another
\* writes, and every order of the iterations ends in the store of the order
\* 0..N-1; lift_alloc raises when the lifted tree has a parallel loop two
\* iterations of which write one location.
C21_ForAllOrders ==
    /\ (call.seq > 0 /\ call.err = "") =>
          /\ ParAll(Result, "write")
          /\ ParAll(Result, "read")
          /\ ParAll(Result, "orders")
    /\ (call.op = "lift_alloc" /\ call.invoked) =>
          LET r == LiftAllocs(procs[call.bargs[2].v.proc].ir, call.bargs[2].v.impl,
                              call.bargs[3].v)
          IN  (r.err = "" /\ ~ParAll(r.ir, "write")) => call.err = "SchedulingError"

\* a nest with a parallel outer loop was reordered, and lifting t out of
\* its parallel loop was then refused
C21_Witness ==
    /\ call.seq = 2
    /\ Len(procs) = 2
    /\ procs[2].by.op = "reorder_loops"
    /\ \E q \in StmtPaths(procs[2].ir) : NodeAt(procs[2].ir, q).type = "ForAll"
    /\ call.op = "lift_alloc"
    /\ call.err = "SchedulingError"
    /\ call.args[2] = StrV(<<"t">>)

----------------------------------------------------------------------------
(* The scripts of SpecRw (buffer rewrites) and SpecSt (statement rewrites). *)

RwInit ==
    /\ NavIdle
    /\ LpIdle
    /\ SessIdle
    /\ rwIn \in DimProcs
    /\ rwOut = rwIn
    /\ rwOps = <<>>

RwNext ==
    \/ RwRearrangeDim
    \/ RwDivideDim
    \/ RwMultDim
    \/ RwBoundAlloc
    \/ RwExpandDim

SpecRw == RwInit /\ [][RwNext]_vars

StmtProcs == SimpProcs \cup FisProcs \cup MergeProcs \cup UnrProcs \cup RemProcs \cup SpzProcs

StInit ==
    /\ NavIdle
    /\ LpIdle
    /\ SessIdle
    /\ rwIn \in StmtProcs
    /\ rwOut = rwIn
    /\ rwOps = <<>>

StNext ==
    \/ RwSimplify
    \/ RwFission
    \/ RwFuse
    \/ RwMergeWrites
    \/ RwUnrollLoop
    \/ RwRemoveLoop
    \/ RwSpecialize
    \/ RwAddLoop

SpecSt == StInit /\ [][StNext]_vars

====
